---------------------------- MODULE Spec2Model ----------------------------
(***************************************************************************)
(* A model of the DarkSouls-TAS engine (ds_tas): the controller state      *)
(* model (controller.py), the PTDE memory hook (engine/hooks.py) and the   *)
(* TAS engine (engine/tas_engine.py).                                      *)
(*                                                                         *)
(* The engine is single threaded and blocking.  Each of its operations is  *)
(* split at the hook calls it makes, so that the target process (which     *)
(* ticks its clock, takes human input, loses a pointer chain or exits on   *)
(* its own schedule) can interleave between any two hook calls.            *)
(***************************************************************************)
EXTENDS Integers, Sequences, FiniteSets, TLC

(***************************************************************************)
(* Bounds of the model.                                                    *)
(***************************************************************************)
MaxFrames == 2      \* largest hold-duration of a KeyPress handed to run()
MaxSeqLen == 2      \* longest stored list of a KeySequence handed to run()
MaxQueue == 2       \* run() is handed at most this many frames in all
MaxClock == 2       \* the in-game-time clock stops ticking at this value
MaxRecord == 2      \* record() samples at most this many rows

(***************************************************************************)
(* Controller rows: lists of 20 integers, index i+1 here is index i of the *)
(* source (controller_keys).                                               *)
(***************************************************************************)
NumKeys == 20

Neutral == [i \in 1..NumKeys |-> 0]
RowA == [Neutral EXCEPT ![11] = 1]
RowChord == [Neutral EXCEPT ![5] = 1, ![6] = 1]

\* rows a sequence handed to run() is built from
RunRows == {Neutral, RowA}
\* rows the human holds on the physical pad
PadRows == {Neutral, RowA, RowChord}

(***************************************************************************)
(* KeyPress: a row and a hold-duration (frames).                           *)
(***************************************************************************)
KeyPress(frames, keys) == [frames |-> frames, keys |-> keys]

\* KeyPress.keylist: the row once per frame; range(frames) is empty for
\* frames <= 0
KeyPressKeylist(press) == [i \in 1..press.frames |-> press.keys]

\* KeyPress.from_list: zip(controller_keys, state) names the first 20 values,
\* the axes a short row does not reach keep the default 0; frames = 1
KeyPressFromList(state) ==
    KeyPress(1, [i \in 1..NumKeys |-> IF i <= Len(state) THEN state[i] ELSE 0])

(***************************************************************************)
(* KeySequence: the stored list _sequence of KeyPress.                     *)
(***************************************************************************)
\* variant: equal presses are merged without adding their frames
RECURSIVE CondenseLoop_NoSum(_, _, _)
CondenseLoop_NoSum(rest, current_press, newseq) ==
    IF rest = <<>> THEN Append(newseq, current_press)
    ELSE LET press == Head(rest) IN
         IF KeyPressKeylist(press) = <<>>
         THEN CondenseLoop_NoSum(Tail(rest), current_press, newseq)
         ELSE IF KeyPressKeylist(current_press) = <<>>
         THEN CondenseLoop_NoSum(Tail(rest), press, newseq)
         ELSE IF KeyPressKeylist(press)[1] = KeyPressKeylist(current_press)[1]
         THEN CondenseLoop_NoSum(Tail(rest), current_press, newseq)
         ELSE CondenseLoop_NoSum(Tail(rest), press, Append(newseq, current_press))

\* variant: the last current press is appended twice
RECURSIVE CondenseLoop_LastTwice(_, _, _)
CondenseLoop_LastTwice(rest, current_press, newseq) ==
    IF rest = <<>> THEN Append(Append(newseq, current_press), current_press)
    ELSE LET press == Head(rest) IN
         IF KeyPressKeylist(press) = <<>>
         THEN CondenseLoop_LastTwice(Tail(rest), current_press, newseq)
         ELSE IF KeyPressKeylist(current_press) = <<>>
         THEN CondenseLoop_LastTwice(Tail(rest), press, newseq)
         ELSE IF KeyPressKeylist(press)[1] = KeyPressKeylist(current_press)[1]
         THEN CondenseLoop_LastTwice(Tail(rest),
                                     [current_press EXCEPT !.frames = @ + press.frames],
                                     newseq)
         ELSE CondenseLoop_LastTwice(Tail(rest), press, Append(newseq, current_press))

RECURSIVE CondenseLoop(_, _, _)
CondenseLoop(rest, current_press, newseq) ==
    IF rest = <<>> THEN Append(newseq, current_press)
    ELSE LET press == Head(rest) IN
         IF KeyPressKeylist(press) = <<>>
         THEN CondenseLoop(Tail(rest), current_press, newseq)
         ELSE IF KeyPressKeylist(current_press) = <<>>
         THEN CondenseLoop(Tail(rest), press, newseq)
         ELSE IF KeyPressKeylist(press)[1] = KeyPressKeylist(current_press)[1]
         THEN CondenseLoop(Tail(rest),
                           [current_press EXCEPT !.frames = @ + press.frames],
                           newseq)
         ELSE CondenseLoop(Tail(rest), press, Append(newseq, current_press))

\* variant: the loop starts from the second entry and the first is lost
Condense_DropFirst(sequence) ==
    IF Len(sequence) > 1
    THEN CondenseLoop(Tail(Tail(sequence)), sequence[2], <<>>)
    ELSE sequence

\* KeySequence.condense
Condense(sequence) ==
    IF Len(sequence) > 1
    THEN CondenseLoop(Tail(sequence), sequence[1], <<>>)
    ELSE sequence

RECURSIVE Chain(_)
Chain(lists) == IF lists = <<>> THEN <<>> ELSE Head(lists) \o Chain(Tail(lists))

\* KeySequence.keylist: chain.from_iterable of the entries' keylists
KeySequenceKeylist(sequence) ==
    Chain([i \in 1..Len(sequence) |-> KeyPressKeylist(sequence[i])])

\* KeySequence.from_list: one KeyPress per row, then __init__ condenses
KeySequenceFromList(states) ==
    Condense([i \in 1..Len(states) |-> KeyPressFromList(states[i])])

\* KeySequence.framecount
RECURSIVE FrameCount(_)
FrameCount(sequence) ==
    IF sequence = <<>> THEN 0 ELSE Head(sequence).frames + FrameCount(Tail(sequence))


(***************************************************************************)
(* The operators of KeyPress and KeySequence.  A value is a record: kind   *)
(* "KeyPress" with its press, kind "KeySequence" with its stored list, or  *)
(* the kind of another outcome (an exception, NotImplemented, None, a      *)
(* boolean).                                                               *)
(***************************************************************************)
NoPress == KeyPress(0, Neutral)
AsPress(press) == [kind |-> "KeyPress", press |-> press, seq |-> <<>>]
AsSequence(sequence) == [kind |-> "KeySequence", press |-> NoPress, seq |-> sequence]
Other(kind) == [kind |-> kind, press |-> NoPress, seq |-> <<>>]

\* KeySequence.__init__: a KeyPress item is appended, the stored list of a
\* KeySequence item is extended, any other item is a TypeError; then
\* condense()
KeySequenceInit(sequence) ==
    IF \E i \in 1..Len(sequence) : sequence[i].kind \notin {"KeyPress", "KeySequence"}
    THEN Other("TypeError")
    ELSE AsSequence(Condense(Chain(
            [i \in 1..Len(sequence) |->
                IF sequence[i].kind = "KeyPress" THEN <<sequence[i].press>>
                ELSE sequence[i].seq])))

\* the list [*x._sequence] as items for __init__
Items(sequence) == [i \in 1..Len(sequence) |-> AsPress(sequence[i])]

\* KeyPress.__add__: no branch for another type, the method returns None
KeyPressAdd(self, other) ==
    IF other.kind = "KeyPress" THEN KeySequenceInit(<<self, other>>)
    ELSE IF other.kind = "KeySequence"
    THEN KeySequenceInit(<<self>> \o Items(other.seq))
    ELSE Other("None")

\* variant: the operands are joined in the wrong order
KeySequenceAdd_Swapped(self, other) ==
    IF other.kind = "KeySequence"
    THEN KeySequenceInit(Items(other.seq) \o Items(self.seq))
    ELSE IF other.kind = "KeyPress"
    THEN KeySequenceInit(<<other>> \o Items(self.seq))
    ELSE Other("NotImplemented")

\* KeySequence.__add__
KeySequenceAdd(self, other) ==
    IF other.kind = "KeySequence"
    THEN KeySequenceInit(Items(self.seq) \o Items(other.seq))
    ELSE IF other.kind = "KeyPress"
    THEN KeySequenceInit(Items(self.seq) \o <<other>>)
    ELSE Other("NotImplemented")

\* KeySequence.__radd__: for a KeyPress on the left the list starts with the
\* class KeyPress, not with other
KeySequenceRadd(self, other) ==
    IF other.kind = "KeySequence"
    THEN KeySequenceInit(Items(other.seq) \o Items(self.seq))
    ELSE IF other.kind = "KeyPress"
    THEN KeySequenceInit(<<Other("type")>> \o Items(self.seq))
    ELSE Other("NotImplemented")

\* a + b: type(a).__add__(a, b); the reflected method of b is tried only
\* when that returns NotImplemented
Add(a, b) ==
    LET r == IF a.kind = "KeyPress" THEN KeyPressAdd(a, b) ELSE KeySequenceAdd(a, b)
    IN  IF r.kind = "NotImplemented" /\ b.kind = "KeySequence"
        THEN KeySequenceRadd(b, a)
        ELSE r

\* variant: the frames are added to the factor
KeyPressMul_Plus(self, other) == [self EXCEPT !.frames = self.frames + other]

\* KeyPress.__mul__ by an int: a copy with frames * other
KeyPressMul(self, other) == [self EXCEPT !.frames = self.frames * other]

\* KeyPress.__rmul__
KeyPressRmul(self, other) == KeyPressMul(self, other)

Abs(x) == IF x < 0 THEN -x ELSE x

\* max(a, b): the first of the largest
Max(a, b) == IF b > a THEN b ELSE a

\* variant: the sticks take the numeric maximum like the buttons
MaxAbs_Numeric(a, b) == IF b > a THEN b ELSE a

\* max(a, b, key=abs): the first of those with the largest abs
MaxAbs(a, b) == IF Abs(b) > Abs(a) THEN b ELSE a

\* KeyPress.__and__
KeyPressAnd(self, other) ==
    KeyPress(Max(self.frames, other.frames),
             [i \in 1..NumKeys |->
                 IF i <= 16 THEN Max(self.keys[i], other.keys[i])
                 ELSE MaxAbs(self.keys[i], other.keys[i])])

\* KeyPress.__eq__ with another KeyPress: the keylists are compared
KeyPressEq(self, other) == KeyPressKeylist(self) = KeyPressKeylist(other)

\* KeySequence.append, extend and __setitem__ change the stored list and
\* do not call condense()
SeqAppend(sequence, keypress) == Append(sequence, keypress)
SeqExtend(sequence, keypresses) == sequence \o keypresses
SeqSetItem(sequence, key, value) == [sequence EXCEPT ![key] = value]

(***************************************************************************)
(* The 12-byte controller block of PTDEHook.read_input / write_input.      *)
(***************************************************************************)
RECURSIVE BitOr(_, _)
\* Python's | on non-negative integers
BitOr(a, b) ==
    IF a = 0 THEN b
    ELSE IF b = 0 THEN a
    ELSE (IF a % 2 = 1 \/ b % 2 = 1 THEN 1 ELSE 0) + 2 * BitOr(a \div 2, b \div 2)

RECURSIVE Pow2(_)
Pow2(n) == IF n = 0 THEN 1 ELSE 2 * Pow2(n - 1)

\* variant: the last four buttons follow the first ten without a gap
RECURSIVE ButtonMask_NoGap(_, _)
ButtonMask_NoGap(inputs, n) ==
    IF n < 0 THEN 0
    ELSE IF n \in 14..15 THEN ButtonMask_NoGap(inputs, n - 1)
    ELSE BitOr(ButtonMask_NoGap(inputs, n - 1), inputs[n + 1] * Pow2(n))

\* buttons = buttons | (inputs[n] << n) for n in 0..9, then
\* buttons | (inputs[n-2] << n) for n in 12..15
RECURSIVE ButtonMask(_, _)
ButtonMask(inputs, n) ==
    IF n < 0 THEN 0
    ELSE IF n \in 10..11 THEN ButtonMask(inputs, n - 1)
    ELSE IF n <= 9
    THEN BitOr(ButtonMask(inputs, n - 1), inputs[n + 1] * Pow2(n))
    ELSE BitOr(ButtonMask(inputs, n - 1), inputs[n - 1] * Pow2(n))

\* int.to_bytes(2, byteorder="little", signed=True) of a value in range
Int16Bytes(v) == LET u == v % 65536 IN <<u % 256, u \div 256>>

\* int.from_bytes(data, byteorder='little', signed=True) of two bytes
Int16FromBytes(lo, hi) ==
    LET u == lo + 256 * hi IN IF u >= 32768 THEN u - 65536 ELSE u

\* to_bytes raises OverflowError for a value its width cannot hold
RowInRange(inputs) ==
    /\ ButtonMask(inputs, 15) \in 0..65535
    /\ \A i \in 15..16 : inputs[i] \in 0..255
    /\ \A i \in 17..20 : inputs[i] \in -32768..32767

\* the data that write_input builds from a row
WriteInputBytes(inputs) ==
    LET buttons == ButtonMask(inputs, 15) IN
    <<buttons % 256, buttons \div 256, inputs[15], inputs[16]>>
    \o Int16Bytes(inputs[17]) \o Int16Bytes(inputs[18])
    \o Int16Bytes(inputs[19]) \o Int16Bytes(inputs[20])

\* the row that read_input builds from the 12 bytes
ReadInputRow(data) ==
    LET buttons == data[1] + 256 * data[2] IN
    [i \in 1..NumKeys |->
        IF i <= 10 THEN (buttons \div Pow2(i - 1)) % 2
        ELSE IF i <= 14 THEN (buttons \div Pow2(i + 1)) % 2
        ELSE IF i = 15 THEN data[3]
        ELSE IF i = 16 THEN data[4]
        ELSE Int16FromBytes(data[2 * i - 29], data[2 * i - 28])]

\* (BYTE*length)(): the buffer a failed ReadProcessMemory leaves untouched
ZeroBytes == [i \in 1..12 |-> 0]

(***************************************************************************)
(* State.                                                                  *)
(***************************************************************************)
VARIABLES
    \* the target process, as the hook's OS calls see it
    alive,            \* ReadProcessMemory / WriteProcessMemory succeed
    clock,            \* the in-game time behind the IGT pointer chain
    pad,              \* the 12-byte controller block, as last written
    controller_on,    \* native controller path patched in (controller(True))
    background_on,    \* background input patched in (background_input(True))
    mouse_off,        \* disable_mouse(True) in effect
    \* the TAS engine
    pc,               \* where the running operation stands
    args,             \* the operation and its arguments
    queue,            \* TAS.queue
    cmd,              \* position of "for command in self.queue"
    igt,              \* the local igt of _execute / record
    callIdx,          \* position in the enter / exit calls of tas_control
    err,              \* the exception in flight or raised ("none" if none)
    result,           \* "none", "returned" or "raised"
    recording_data,   \* the local recording_data of record
    recording,        \* the KeySequence record returned
    \* history of the running operation
    log,              \* the calls made, in order
    os_failed,        \* an OS memory call failed during it
    chord_all,        \* every read_input of it returned start+back
    \* a PTDEHook and the OS objects it holds
    hook_module,      \* the module the class comes from: "hooks" or "ptdehook"
    hook_state,       \* "none" (not constructed), "live" or "deleted"
    w_handle,         \* PTDEHook.w_handle (0 stands for None and for NULL)
    handle,           \* PTDEHook.handle (0 stands for None and for NULL)
    xinput_address,   \* PTDEHook.xinput_address (0 stands for None)
    hook_err,         \* the exception the last hook operation raised
    window,           \* the game runs and its window exists
    os_handles,       \* the process handles that are open
    oscalls,          \* the hook operations and the OS calls they made
    \* KeyPress / KeySequence values under an operator
    lhs,              \* the left operand (self)
    rhs,              \* the right operand (other), when it is a value
    times,            \* the right operand, when it is an int
    op,               \* the operator applied, "none" before
    out,              \* what it returned
    stored,           \* _sequence of the KeySequence object under mutation
    \* KeyPress and KeySequence objects with their identity
    heap,             \* the KeyPress objects; an object is its index
    seqs,             \* _sequence of each KeySequence object, a list of objects
    hop,              \* the operation applied last
    aliased,          \* the list condensed last held an object that another
                      \* KeySequence holds too
    \* the force_quit script
    fq_pc,            \* "idle", "loop", "done" (loop left), "raised"
    delay_frames,     \* its argument
    fq_igt,           \* igt
    last_frame,
    igt_running,
    frame_wait,
    fq_err,           \* the exception that ended the call, "none" otherwise
    polls,            \* the (igt, frame_count) pairs the script has read
    quits,            \* the calls of h.force_quit() it has made
    \* what run() found when it was called
    stale             \* the queue held rows of an earlier call

target == <<alive, clock, pad, controller_on, background_on, mouse_off>>
engine == <<pc, args, queue, cmd, igt, callIdx, err, result,
            recording_data, recording>>
history == <<log, os_failed, chord_all>>
enginevars == <<target, engine, history>>
hookvars == <<hook_module, hook_state, w_handle, handle, xinput_address,
              hook_err, window, os_handles, oscalls>>
calcvars == <<lhs, rhs, times, op, out, stored>>
heapvars == <<heap, seqs, hop, aliased>>
scriptvars == <<fq_pc, delay_frames, fq_igt, last_frame, igt_running,
                frame_wait, fq_err, polls, quits>>
runvars == <<stale>>
vars == <<enginevars, hookvars, calcvars, heapvars, scriptvars, runvars>>

Ev(call, arg) == [call |-> call, arg |-> arg]
Flag(b) == IF b THEN <<1>> ELSE <<0>>

(***************************************************************************)
(* What run() is handed: a KeyPress or a KeySequence.                      *)
(***************************************************************************)
PressInputs == {KeyPress(f, k) : f \in 0..MaxFrames, k \in RunRows}

RECURSIVE ListsUpTo(_, _)
ListsUpTo(S, n) ==
    IF n = 0 THEN {<<>>}
    ELSE LET shorter == ListsUpTo(S, n - 1) IN
         shorter \cup {Append(l, x) : l \in {m \in shorter : Len(m) = n - 1}, x \in S}

\* len(keyseq): KeyPress.__len__ is frames, KeySequence.__len__ the entries
KeyseqLen(keyseq) ==
    IF keyseq.kind = "KeyPress" THEN keyseq.press.frames ELSE Len(keyseq.seq)

\* keyseq.keylist
Keylist(keyseq) ==
    IF keyseq.kind = "KeyPress" THEN KeyPressKeylist(keyseq.press)
    ELSE KeySequenceKeylist(keyseq.seq)

RunInputs ==
    {k \in {[kind |-> "KeyPress", press |-> p, seq |-> <<>>] : p \in PressInputs}
           \cup {[kind |-> "KeySequence", press |-> KeyPress(0, Neutral), seq |-> l] :
                    l \in ListsUpTo(PressInputs, MaxSeqLen)} :
        Len(Keylist(k)) <= MaxQueue}

NoArgs == [op |-> "none", empty |-> FALSE, keylist |-> <<>>,
           igt_wait |-> FALSE, display |-> FALSE,
           button_wait |-> FALSE, timed |-> FALSE]

(***************************************************************************)
(* TAS._clear and TAS._push (of a list of rows).                           *)
(***************************************************************************)
Clear(q) == <<>>

\* i[0] of an empty list raises IndexError; a first row of 20 values
\* extends the queue with every row of i; anything else is a ValueError
Push(q, i) ==
    IF Len(i) = 0 THEN [err |-> "IndexError", queue |-> q]
    ELSE IF Len(i[1]) = NumKeys THEN [err |-> "none", queue |-> q \o i]
    ELSE [err |-> "ValueError", queue |-> q]

(***************************************************************************)
(* TAS.tas_control.                                                        *)
(***************************************************************************)
\* variant: the try block forgets controller(False)
EnterCalls_NoControllerOff == <<Ev("background_input", Flag(TRUE)),
                                Ev("disable_mouse", Flag(TRUE))>>

\* the calls of the try block before the yield
EnterCalls == <<Ev("controller", Flag(FALSE)),
                Ev("background_input", Flag(TRUE)),
                Ev("disable_mouse", Flag(TRUE))>>

\* the calls of the finally block
ExitCalls == <<Ev("disable_mouse", Flag(FALSE)),
               Ev("background_input", Flag(FALSE)),
               Ev("controller", Flag(TRUE))>>

\* except PermissionError: raise GameNotRunningError
TasControlExcept(e) == IF e = "PermissionError" THEN "GameNotRunningError" ELSE e

\* variant: a failed hook call is tried again from the write of the frame
RaisedInBlock_Retry == "write"

\* variant: the restoring calls follow the yield without a finally
RaisedInBlock_NoFinally == "leave"

\* where an exception raised inside the with block goes: the finally block
RaisedInBlock == "exit"

(***************************************************************************)
(* PTDEHook: the outcomes of one accessor call.                            *)
(*                                                                         *)
(* ReadProcessMemory and WriteProcessMemory are called through windll with *)
(* no errcheck, so a failed call raises nothing: a failed read leaves the  *)
(* zeroed buffer (read_int gives 0), a failed write is lost.               *)
(*   cause "os":   the target is gone, the first read of the chain fails.  *)
(*   cause "null": the chain resolves to 0 in the running target.  The     *)
(*                 game builds and tears down the objects the chains lead  *)
(*                 to on its own schedule, so every call may find either.  *)
(*   dies:         the target exits during the call, after the chain was   *)
(*                 read: the last OS call of the accessor fails.           *)
(***************************************************************************)
\* variant: igt trusts the zeroed buffer of a failed read (no ptr == 0 test)
IgtOutcomes_NoNullTest ==
    IF ~alive
    THEN {[err |-> "none", cause |-> "os", val |-> 0, dies |-> FALSE]}
    ELSE {[err |-> "none", cause |-> "none", val |-> clock, dies |-> FALSE],
          [err |-> "none", cause |-> "null", val |-> 0, dies |-> FALSE],
          [err |-> "none", cause |-> "os", val |-> 0, dies |-> TRUE]}

\* PTDEHook.igt
IgtOutcomes ==
    IF ~alive
    THEN {[err |-> "RuntimeError", cause |-> "os", val |-> 0, dies |-> FALSE]}
    ELSE {[err |-> "none", cause |-> "none", val |-> clock, dies |-> FALSE],
          [err |-> "RuntimeError", cause |-> "null", val |-> 0, dies |-> FALSE],
          [err |-> "none", cause |-> "os", val |-> 0, dies |-> TRUE]}

\* the rows read_input can find in the block: with the native controller
\* path enabled the game refreshes the block from the physical pad, whatever
\* the human holds; with the path disabled the block keeps what was written
PadBlocks == {WriteInputBytes(r) : r \in PadRows}

BlockRows ==
    IF controller_on THEN {ReadInputRow(b) : b \in PadBlocks}
    ELSE {ReadInputRow(pad)}

\* PTDEHook.read_input
ReadInputOutcomes ==
    IF ~alive
    THEN {[err |-> "RuntimeError", cause |-> "os", row |-> Neutral, dies |-> FALSE]}
    ELSE {[err |-> "none", cause |-> "none", row |-> r, dies |-> FALSE] : r \in BlockRows}
         \cup {[err |-> "RuntimeError", cause |-> "null", row |-> Neutral, dies |-> FALSE],
               [err |-> "none", cause |-> "os", row |-> ReadInputRow(ZeroBytes), dies |-> TRUE]}

\* PTDEHook.write_input
WriteInputOutcomes(inputs) ==
    IF ~RowInRange(inputs)
    THEN {[err |-> "OverflowError", cause |-> "none", pad |-> pad, dies |-> FALSE]}
    ELSE IF ~alive
    THEN {[err |-> "RuntimeError", cause |-> "os", pad |-> pad, dies |-> FALSE]}
    ELSE {[err |-> "none", cause |-> "none", pad |-> WriteInputBytes(inputs), dies |-> FALSE],
          [err |-> "RuntimeError", cause |-> "null", pad |-> pad, dies |-> FALSE],
          [err |-> "none", cause |-> "os", pad |-> pad, dies |-> TRUE]}

\* PTDEHook.controller: write_memory of the patch; lost if the call fails
Controller(state) ==
    /\ controller_on' = IF alive THEN state ELSE controller_on
    /\ UNCHANGED <<background_on, mouse_off>>

\* PTDEHook.background_input
BackgroundInput(state) ==
    /\ background_on' = IF alive THEN state ELSE background_on
    /\ UNCHANGED <<controller_on, mouse_off>>

\* the hook's disable_mouse
DisableMouse(state) ==
    /\ mouse_off' = IF alive THEN state ELSE mouse_off
    /\ UNCHANGED <<controller_on, background_on>>

\* one call of tas_control's enter or exit list
HookCall(ev) ==
    /\ \/ ev.call = "controller" /\ Controller(ev.arg = Flag(TRUE))
       \/ ev.call = "background_input" /\ BackgroundInput(ev.arg = Flag(TRUE))
       \/ ev.call = "disable_mouse" /\ DisableMouse(ev.arg = Flag(TRUE))
    /\ log' = Append(log, ev)
    /\ os_failed' = (os_failed \/ ~alive)

(***************************************************************************)
(* PTDEHook: construction, acquire, release, force_quit and teardown.      *)
(* The class exists twice, in engine/hooks.py and in                       *)
(* engine/hooks/ptdehook.py; the two differ in acquire.                    *)
(***************************************************************************)
MaxHookLog == 8     \* a hook operation starts while its log is shorter

HookModules == {"hooks", "ptdehook"}

\* the HWND FindWindow returns for the game window
HWnd == 100
\* the load address of XINPUT1_3.dll in the game
XInputBase == 200

OsEv(call, x) == Ev(call, <<x>>)
IsOpenProcess(e) == e.call = "OpenProcess"

\* the value OpenProcess returns for a handle it opens: one not handed out
\* before
FreshHandle == 1 + Len(SelectSeq(oscalls, IsOpenProcess))

\* the window test of acquire: hooks.py raises when FindWindow returns 0,
\* ptdehook.py has no test
WindowTest(module, w) == module = "hooks" /\ w = 0

\* acquire(): FindWindow, the window test, OpenProcess,
\* get_module_base_address (UnboundLocalError when the module list of the
\* process does not hold XINPUT1_3.dll) and is_debug.  Without a window
\* the process id stays 0: OpenProcess fails and the snapshot is the one of
\* the calling process.  A game that exits during acquire makes OpenProcess
\* or the module search fail.
AcquireOutcomes ==
    LET w == IF window THEN HWnd ELSE 0
        h == FreshHandle
        called == Ev("acquire", <<>>)
        found == OsEv("FindWindow", w)
    IN  IF WindowTest(hook_module, w)
        THEN {[err |-> "GameNotRunningError", w_handle |-> w, handle |-> handle,
               xinput_address |-> xinput_address, opened |-> {},
               calls |-> <<called, found>>, window |-> window]}
        ELSE IF w = 0
        THEN {[err |-> "UnboundLocalError", w_handle |-> w, handle |-> 0,
               xinput_address |-> xinput_address, opened |-> {},
               calls |-> <<called, found, OsEv("OpenProcess", 0)>>, window |-> window]}
        ELSE {[err |-> "none", w_handle |-> w, handle |-> h,
               xinput_address |-> XInputBase, opened |-> {h},
               calls |-> <<called, found, OsEv("OpenProcess", h)>>, window |-> TRUE],
              [err |-> "UnboundLocalError", w_handle |-> w, handle |-> h,
               xinput_address |-> xinput_address, opened |-> {h},
               calls |-> <<called, found, OsEv("OpenProcess", h)>>, window |-> FALSE],
              [err |-> "UnboundLocalError", w_handle |-> w, handle |-> 0,
               xinput_address |-> xinput_address, opened |-> {},
               calls |-> <<called, found, OsEv("OpenProcess", 0)>>, window |-> FALSE]}

\* the guard of release(): nothing to do when neither handle is set
NothingHeld(h, w) == ~(h # 0 \/ w # 0)

\* release(): the CloseHandle calls it makes for the fields h and w; the
\* fields keep their values
ReleaseCalls(h, w) ==
    IF NothingHeld(h, w) THEN <<>>
    ELSE <<OsEv("CloseHandle", h), OsEv("CloseHandle", w)>>

\* the process handles open after release()
ReleaseHandles(open, h, w) ==
    IF NothingHeld(h, w) THEN open ELSE open \ {h}

\* TerminateProcess(self.handle), called with one argument of two: a 32-bit
\* build of ctypes raises ValueError after the call, a 64-bit build passes
\* an arbitrary exit code.  The call ends the game when the handle is open
\* and the game runs.
TerminateOutcomes ==
    LET works == handle \in os_handles /\ window IN
    {[err |-> e, result |-> IF works THEN 1 ELSE 0,
      window |-> window /\ ~works] : e \in {"none", "ValueError"}}
    \cup {[err |-> "none", result |-> 0, window |-> window]}

(***************************************************************************)
(* The accessors that follow a pointer chain in the game's memory:         *)
(* read_input, write_input, igt and frame_count.  read_memory and          *)
(* write_memory do not look at what ReadProcessMemory / WriteProcessMemory *)
(* return; a failed read leaves the zeroed buffer.                         *)
(***************************************************************************)
Accessors == {"read_input", "write_input", "igt", "frame_count"}

XInputOffset == 68676       \* 0x10C44
PadOffset == 40             \* 0x28
IgtBase == 20416256         \* 0x1378700
IgtOffset == 104            \* 0x68
FrameCountBase == 20416004  \* 0x1378604
FrameCountOffset == 88      \* 0x58
\* the address of an object of the game, as a pointer of a chain holds it
ObjAddr == 536870912
\* the first 64 KB of a process are never mapped
Mapped(addr) == addr >= 65536
PointerValues == {0, ObjAddr}

\* the chain of an accessor: where it starts, how many pointers it reads
\* before the ptr == 0 test, the offset it adds and the call it ends with
AccessorChain(name) ==
    IF name = "read_input"
    THEN [base |-> xinput_address + XInputOffset, hops |-> 2,
          offset |-> PadOffset, access |-> "ReadProcessMemory"]
    ELSE IF name = "write_input"
    THEN [base |-> xinput_address + XInputOffset, hops |-> 2,
          offset |-> PadOffset, access |-> "WriteProcessMemory"]
    ELSE IF name = "igt"
    THEN [base |-> IgtBase, hops |-> 1,
          offset |-> IgtOffset, access |-> "ReadProcessMemory"]
    ELSE [base |-> FrameCountBase, hops |-> 1,
          offset |-> FrameCountOffset, access |-> "ReadProcessMemory"]

MemEv(call, addr, ok) == Ev(call, <<addr, IF ok THEN 1 ELSE 0>>)

\* ptr = self.read_int(ptr, 4), the second read of a chain: whatever the
\* first read returned is the address
SecondHop(up, v1, p2) ==
    [val |-> IF up /\ Mapped(v1) THEN p2 ELSE 0,
     calls |-> <<MemEv("ReadProcessMemory", v1, up /\ Mapped(v1))>>]

\* one call of an accessor when the pointers of its chain hold p1 and p2:
\* the exception it raises and the OS calls it makes
AccessOutcome(name, p1, p2) ==
    LET c == AccessorChain(name)
        up == handle \in os_handles /\ window
        ok1 == up /\ Mapped(c.base)
        v1 == IF ok1 THEN p1 ELSE 0
        first == <<MemEv("ReadProcessMemory", c.base, ok1)>>
        second == SecondHop(up, v1, p2)
        ptr == IF c.hops = 2 THEN second.val ELSE v1
        reads == IF c.hops = 2 THEN first \o second.calls ELSE first
    IN  IF c.hops = 2 /\ xinput_address = 0
        THEN [err |-> "TypeError", calls |-> <<>>]
        ELSE IF ptr = 0
        THEN [err |-> "RuntimeError", calls |-> reads]
        ELSE [err |-> "none",
              calls |-> Append(reads, MemEv(c.access, ptr + c.offset,
                                            up /\ Mapped(ptr + c.offset)))]

\* the hook the engine holds in Init: constructed with the game running
HookAttached ==
    /\ hook_module = "hooks"
    /\ hook_state = "live"
    /\ w_handle = HWnd
    /\ handle = 1
    /\ xinput_address = XInputBase
    /\ hook_err = "none"
    /\ window = TRUE
    /\ os_handles = {1}
    /\ oscalls = <<Ev("__init__", <<>>), Ev("acquire", <<>>),
                   OsEv("FindWindow", HWnd), OsEv("OpenProcess", 1)>>

(***************************************************************************)
(* Initial state: TAS.__init__ has run, the hook is attached, the target   *)
(* runs with its native controller path enabled.                           *)
(***************************************************************************)
EngineInit ==
    /\ stale = FALSE
    /\ alive = TRUE
    /\ clock = 0
    /\ pad = ZeroBytes
    /\ controller_on = TRUE
    /\ background_on = FALSE
    /\ mouse_off = FALSE
    /\ pc = "idle"
    /\ args = NoArgs
    /\ queue = <<>>
    /\ cmd = 1
    /\ igt = 0
    /\ callIdx = 1
    /\ err = "none"
    /\ result = "none"
    /\ recording_data = <<>>
    /\ recording = <<>>
    /\ log = <<>>
    /\ os_failed = FALSE
    /\ chord_all = TRUE

\* no operator is under evaluation
CalcIdle ==
    /\ lhs = Other("none")
    /\ rhs = Other("none")
    /\ times = 0
    /\ op = "none"
    /\ out = Other("none")
    /\ stored = <<>>

\* no KeyPress or KeySequence object is followed
HeapIdle ==
    /\ heap = <<>>
    /\ seqs = <<>>
    /\ hop = "none"
    /\ aliased = FALSE

\* the force_quit script has not been called
ScriptIdle ==
    /\ fq_pc = "idle"
    /\ delay_frames = 0
    /\ fq_igt = 0
    /\ last_frame = 0
    /\ igt_running = TRUE
    /\ frame_wait = 0
    /\ fq_err = "none"
    /\ polls = <<>>
    /\ quits = 0

Init == EngineInit /\ HookAttached /\ CalcIdle /\ HeapIdle /\ ScriptIdle

(***************************************************************************)
(* The target process.                                                     *)
(***************************************************************************)
\* the game displays a frame: the in-game time advances
Tick ==
    /\ alive
    /\ clock < MaxClock
    /\ clock' = clock + 1
    /\ UNCHANGED <<alive, pad, controller_on, background_on, mouse_off,
                   engine, history>>
    /\ UNCHANGED <<hookvars, calcvars, heapvars, scriptvars, runvars>>

\* the game exits or crashes: every later OS memory call fails
TargetExit ==
    /\ alive
    /\ alive' = FALSE
    /\ UNCHANGED <<clock, pad, controller_on, background_on, mouse_off,
                   engine, history>>
    /\ UNCHANGED <<hookvars, calcvars, heapvars, scriptvars, runvars>>

(***************************************************************************)
(* The caller of the engine.  An operation that has ended stands at        *)
(* "done" with its result and its history; the caller takes them and the   *)
(* engine is "idle" until the next operation is called.                    *)
(***************************************************************************)
Return ==
    /\ pc = "done"
    /\ pc' = "idle"
    /\ args' = NoArgs
    /\ err' = "none"
    /\ result' = "none"
    /\ recording' = <<>>
    /\ log' = <<>>
    /\ os_failed' = FALSE
    /\ chord_all' = TRUE
    /\ UNCHANGED <<target, queue, cmd, igt, callIdx, recording_data>>
    /\ UNCHANGED <<hookvars, calcvars, heapvars, scriptvars, runvars>>

(***************************************************************************)
(* TAS.run and TAS._execute.                                               *)
(***************************************************************************)
\* the locals of an operation end with it
DropLocals ==
    /\ cmd' = 1
    /\ igt' = 0
    /\ callIdx' = 1
    /\ recording_data' = <<>>

\* run() up to the with statement of _execute: the empty-sequence test,
\* _clear and _push
\* variant: the rows are pushed onto whatever the queue holds
RunQueue_NoClear(q, i) == Push(q, i)

\* self._clear() then self._push(keyseq.keylist)
RunQueue(q, i) == Push(Clear(q), i)

\* run(keyseq, igt_wait, display)
RunCall ==
    /\ pc = "idle"
    /\ \E keyseq \in RunInputs, igt_wait \in BOOLEAN, display \in BOOLEAN :
          /\ args' = [NoArgs EXCEPT !.op = "run",
                                    !.empty = ~(KeyseqLen(keyseq) > 0),
                                    !.keylist = Keylist(keyseq),
                                    !.igt_wait = igt_wait, !.display = display]
          /\ IF KeyseqLen(keyseq) > 0
             THEN LET pushed == RunQueue(queue, Keylist(keyseq)) IN
                  /\ queue' = pushed.queue
                  /\ err' = pushed.err
                  /\ IF pushed.err = "none"
                     THEN pc' = "enter" /\ result' = "none"
                     ELSE pc' = "done" /\ result' = "raised"
             ELSE /\ queue' = queue
                  /\ err' = "none"
                  /\ pc' = "done"
                  /\ result' = "returned"
    /\ UNCHANGED <<target, cmd, igt, callIdx, recording_data, recording,
                   history>>
    /\ UNCHANGED <<hookvars, calcvars, heapvars, scriptvars>>

RunStart == RunCall /\ UNCHANGED runvars

\* the same call, with what it found in the queue noted
RunStartNoted == RunCall /\ stale' = (queue # <<>>)

\* the try block of tas_control up to the yield
Enter ==
    /\ pc = "enter"
    /\ HookCall(EnterCalls[callIdx])
    /\ IF callIdx < Len(EnterCalls)
       THEN callIdx' = callIdx + 1 /\ pc' = pc
       ELSE callIdx' = 1 /\ pc' = "igt0"
    /\ UNCHANGED <<alive, clock, pad, args, queue, cmd, igt, err, result,
                   recording_data, recording, chord_all>>
    /\ UNCHANGED <<hookvars, calcvars, heapvars, scriptvars, runvars>>

\* an exception leaves the with block
Raise(e) ==
    /\ err' = TasControlExcept(e)
    /\ pc' = RaisedInBlock
    /\ callIdx' = 1

\* variant: the wait does not compare, it ends at its first read
SameIgt_NoWait(before, now) == FALSE

\* the while condition of a frame-boundary wait: igt == self.igt()
SameIgt(before, now) == before = now

\* igt = self.igt(), the read that opens a wait; next is where it leads
ReadIgt(next) ==
    \E o \in IgtOutcomes :
        /\ alive' = (alive /\ ~o.dies)
        /\ os_failed' = (os_failed \/ o.cause = "os")
        /\ IF o.err # "none"
           THEN Raise(o.err) /\ UNCHANGED <<igt, log>>
           ELSE /\ igt' = o.val
                /\ log' = Append(log, Ev("igt", <<>>))
                /\ pc' = next
                /\ UNCHANGED <<err, callIdx>>

\* one evaluation of "while igt == self.igt()"; the tick event tells
\* whether the value that ended the wait differs from the local igt
PollIgt(sleep, next) ==
    \E o \in IgtOutcomes :
        /\ alive' = (alive /\ ~o.dies)
        /\ os_failed' = (os_failed \/ o.cause = "os")
        /\ IF o.err # "none"
           THEN Raise(o.err) /\ UNCHANGED log
           ELSE IF SameIgt(igt, o.val)
           THEN pc' = sleep /\ UNCHANGED <<err, callIdx, log>>
           ELSE /\ log' = Append(log, Ev("tick", Flag(o.val # igt)))
                /\ pc' = next
                /\ UNCHANGED <<err, callIdx>>

\* variant: no wait before the first frame
FirstWait_None(igt_wait) == "write"

\* what follows the first read of the clock: the wait for a tick when
\* igt_wait is set, the sleep of 1/20 s otherwise
FirstWait(igt_wait) == IF igt_wait THEN "poll0" ELSE "nap"

Igt0 ==
    /\ pc = "igt0"
    /\ ReadIgt(FirstWait(args.igt_wait))
    /\ UNCHANGED <<clock, pad, controller_on, background_on, mouse_off,
                   args, queue, cmd, result, recording_data, recording,
                   chord_all>>
    /\ UNCHANGED <<hookvars, calcvars, heapvars, scriptvars, runvars>>

Poll0 ==
    /\ pc = "poll0"
    /\ PollIgt("sleep0", "write")
    /\ UNCHANGED <<clock, pad, controller_on, background_on, mouse_off,
                   args, queue, cmd, igt, result, recording_data, recording,
                   chord_all>>
    /\ UNCHANGED <<hookvars, calcvars, heapvars, scriptvars, runvars>>

\* time.sleep(0.002) of the first wait
Sleep0 ==
    /\ pc = "sleep0"
    /\ pc' = "poll0"
    /\ UNCHANGED <<target, args, queue, cmd, igt, callIdx, err, result,
                   recording_data, recording, history>>
    /\ UNCHANGED <<hookvars, calcvars, heapvars, scriptvars, runvars>>

\* time.sleep(0.05) when igt_wait is false
Nap ==
    /\ pc = "nap"
    /\ pc' = "write"
    /\ UNCHANGED <<target, args, queue, cmd, igt, callIdx, err, result,
                   recording_data, recording, history>>
    /\ UNCHANGED <<hookvars, calcvars, heapvars, scriptvars, runvars>>

\* self.h.write_input(command)
Write ==
    /\ pc = "write"
    /\ \E o \in WriteInputOutcomes(queue[cmd]) :
          /\ alive' = (alive /\ ~o.dies)
          /\ os_failed' = (os_failed \/ o.cause = "os")
          /\ pad' = o.pad
          /\ IF o.err # "none"
             THEN Raise(o.err) /\ UNCHANGED log
             ELSE /\ log' = Append(log, Ev("write_input", queue[cmd]))
                  /\ pc' = IF args.display THEN "effect" ELSE "igt1"
                  /\ UNCHANGED <<err, callIdx>>
    /\ UNCHANGED <<clock, controller_on, background_on, mouse_off,
                   args, queue, cmd, igt, result, recording_data, recording,
                   chord_all>>
    /\ UNCHANGED <<hookvars, calcvars, heapvars, scriptvars, runvars>>

\* side_effect(command): print_press
Effect ==
    /\ pc = "effect"
    /\ log' = Append(log, Ev("side_effect", queue[cmd]))
    /\ pc' = "igt1"
    /\ UNCHANGED <<target, args, queue, cmd, igt, callIdx, err, result,
                   recording_data, recording, os_failed, chord_all>>
    /\ UNCHANGED <<hookvars, calcvars, heapvars, scriptvars, runvars>>

Igt1 ==
    /\ pc = "igt1"
    /\ ReadIgt("poll1")
    /\ UNCHANGED <<clock, pad, controller_on, background_on, mouse_off,
                   args, queue, cmd, result, recording_data, recording,
                   chord_all>>
    /\ UNCHANGED <<hookvars, calcvars, heapvars, scriptvars, runvars>>

\* the wait after a write, and the step of the for loop that follows it:
\* the loop takes its next command once the wait has seen the clock change
Poll1 ==
    /\ pc = "poll1"
    /\ PollIgt("sleep1", IF cmd < Len(queue) THEN "write" ELSE "clear")
    /\ cmd' = IF log' = log THEN cmd ELSE cmd + 1
    /\ UNCHANGED <<clock, pad, controller_on, background_on, mouse_off,
                   args, queue, igt, result, recording_data, recording,
                   chord_all>>
    /\ UNCHANGED <<hookvars, calcvars, heapvars, scriptvars, runvars>>

Sleep1 ==
    /\ pc = "sleep1"
    /\ pc' = "poll1"
    /\ UNCHANGED <<target, args, queue, cmd, igt, callIdx, err, result,
                   recording_data, recording, history>>
    /\ UNCHANGED <<hookvars, calcvars, heapvars, scriptvars, runvars>>

\* self.queue.clear(), the last statement of the with block
ClearQueue ==
    /\ pc = "clear"
    /\ queue' = Clear(queue)
    /\ pc' = "exit"
    /\ callIdx' = 1
    /\ UNCHANGED <<target, args, cmd, igt, err, result,
                   recording_data, recording, history>>
    /\ UNCHANGED <<hookvars, calcvars, heapvars, scriptvars, runvars>>

\* the finally block of tas_control
Exit ==
    /\ pc = "exit"
    /\ HookCall(ExitCalls[callIdx])
    /\ IF callIdx < Len(ExitCalls)
       THEN callIdx' = callIdx + 1 /\ pc' = pc
       ELSE callIdx' = 1 /\ pc' = "leave"
    /\ UNCHANGED <<alive, clock, pad, args, queue, cmd, igt, err, result,
                   recording_data, recording, chord_all>>
    /\ UNCHANGED <<hookvars, calcvars, heapvars, scriptvars, runvars>>

\* control returns to the caller of run(), with or without the exception
Leave ==
    /\ pc = "leave"
    /\ pc' = "done"
    /\ result' = IF err = "none" THEN "returned" ELSE "raised"
    /\ DropLocals
    /\ UNCHANGED <<target, args, queue, err, recording, history>>
    /\ UNCHANGED <<hookvars, calcvars, heapvars, scriptvars, runvars>>

(***************************************************************************)
(* TAS.record.  The countdown sleeps before the recording change no state. *)
(***************************************************************************)
\* sum(keypress[4:6] + keypress[10:14]): start, back, a, b, x or y is held
RECURSIVE SumRow(_, _, _)
SumRow(row, from, to) ==
    IF from > to THEN 0 ELSE row[from] + SumRow(row, from + 1, to)

StartButton(row) == SumRow(row, 5, 6) + SumRow(row, 11, 14) # 0

\* variant: the stop test reads keypress[5] and keypress[6]
StopChord_Shifted(row) == row[6] # 0 /\ row[7] # 0

\* keypress[4] and keypress[5]: start and back are both held
StopChord(row) == row[5] # 0 /\ row[6] # 0

\* record() raises: it holds no tas_control, the exception goes to the caller
RecordRaise(e) ==
    /\ err' = e
    /\ result' = "raised"
    /\ pc' = "done"
    /\ DropLocals

\* the break of the while loop, KeySequence.from_list and the return
RecordReturn(data) ==
    /\ recording' = KeySequenceFromList(data)
    /\ result' = "returned"
    /\ pc' = "done"
    /\ DropLocals

RecordStart ==
    /\ pc = "idle"
    /\ \E button_wait \in BOOLEAN, timed \in BOOLEAN :
          /\ args' = [NoArgs EXCEPT !.op = "record", !.button_wait = button_wait,
                                    !.timed = timed]
          /\ pc' = IF button_wait THEN "bw_read" ELSE "rec_read"
    /\ UNCHANGED <<target, queue, cmd, igt, callIdx, err, result,
                   recording_data, recording, history>>
    /\ UNCHANGED <<hookvars, calcvars, heapvars, scriptvars, runvars>>

\* keypress = self.h.read_input() of the wait for a first button
ButtonWaitRead ==
    /\ pc = "bw_read"
    /\ \E o \in ReadInputOutcomes :
          /\ alive' = (alive /\ ~o.dies)
          /\ os_failed' = (os_failed \/ o.cause = "os")
          /\ IF o.err # "none"
             THEN RecordRaise(o.err) /\ UNCHANGED chord_all
             ELSE /\ chord_all' = (chord_all /\ o.row[5] = 1 /\ o.row[6] = 1)
                  /\ pc' = IF StartButton(o.row) THEN "rec_read" ELSE "bw_sleep"
                  /\ UNCHANGED <<err, result, cmd, igt, callIdx, recording_data>>
    /\ UNCHANGED <<clock, pad, controller_on, background_on, mouse_off,
                   args, queue, recording, log>>
    /\ UNCHANGED <<hookvars, calcvars, heapvars, scriptvars, runvars>>

ButtonWaitSleep ==
    /\ pc = "bw_sleep"
    /\ pc' = "bw_read"
    /\ UNCHANGED <<target, args, queue, cmd, igt, callIdx, err, result,
                   recording_data, recording, history>>
    /\ UNCHANGED <<hookvars, calcvars, heapvars, scriptvars, runvars>>

\* the sample of the recording loop, the stop test and the append
RecordRead ==
    /\ pc = "rec_read"
    /\ \E o \in ReadInputOutcomes :
          /\ alive' = (alive /\ ~o.dies)
          /\ os_failed' = (os_failed \/ o.cause = "os")
          /\ IF o.err # "none"
             THEN RecordRaise(o.err) /\ UNCHANGED <<log, chord_all, recording>>
             ELSE /\ log' = Append(log, Ev("sample", o.row))
                  /\ chord_all' = (chord_all /\ o.row[5] = 1 /\ o.row[6] = 1)
                  /\ err' = err
                  /\ IF StopChord(o.row)
                     THEN RecordReturn(recording_data)
                     ELSE /\ Len(recording_data) < MaxRecord
                          /\ recording_data' = Append(recording_data, o.row)
                          /\ pc' = "rec_igt"
                          /\ UNCHANGED <<result, recording, cmd, igt, callIdx>>
    /\ UNCHANGED <<clock, pad, controller_on, background_on, mouse_off,
                   args, queue>>
    /\ UNCHANGED <<hookvars, calcvars, heapvars, scriptvars, runvars>>

\* igt = self.h.igt()
RecordIgt ==
    /\ pc = "rec_igt"
    /\ \E o \in IgtOutcomes :
          /\ alive' = (alive /\ ~o.dies)
          /\ os_failed' = (os_failed \/ o.cause = "os")
          /\ IF o.err # "none"
             THEN RecordRaise(o.err) /\ UNCHANGED log
             ELSE /\ igt' = o.val
                  /\ log' = Append(log, Ev("igt", <<>>))
                  /\ pc' = "rec_poll"
                  /\ UNCHANGED <<err, result, cmd, callIdx, recording_data>>
    /\ UNCHANGED <<clock, pad, controller_on, background_on, mouse_off,
                   args, queue, recording, chord_all>>
    /\ UNCHANGED <<hookvars, calcvars, heapvars, scriptvars, runvars>>

\* while igt == self.h.igt()
RecordPoll ==
    /\ pc = "rec_poll"
    /\ \E o \in IgtOutcomes :
          /\ alive' = (alive /\ ~o.dies)
          /\ os_failed' = (os_failed \/ o.cause = "os")
          /\ IF o.err # "none"
             THEN RecordRaise(o.err) /\ UNCHANGED log
             ELSE /\ IF SameIgt(igt, o.val)
                     THEN pc' = "rec_sleep" /\ UNCHANGED log
                     ELSE /\ log' = Append(log, Ev("tick", Flag(o.val # igt)))
                          /\ pc' = "rec_diff"
                  /\ UNCHANGED <<err, result, cmd, igt, callIdx, recording_data>>
    /\ UNCHANGED <<clock, pad, controller_on, background_on, mouse_off,
                   args, queue, recording, chord_all>>
    /\ UNCHANGED <<hookvars, calcvars, heapvars, scriptvars, runvars>>

RecordSleep ==
    /\ pc = "rec_sleep"
    /\ pc' = "rec_poll"
    /\ UNCHANGED <<target, args, queue, cmd, igt, callIdx, err, result,
                   recording_data, recording, history>>
    /\ UNCHANGED <<hookvars, calcvars, heapvars, scriptvars, runvars>>

\* igt_diffs.add(self.h.igt() - igt), then the record_time test: with a
\* record_time, time.clock() may have passed end_time
RecordDiff ==
    /\ pc = "rec_diff"
    /\ \E o \in IgtOutcomes, elapsed \in BOOLEAN :
          /\ alive' = (alive /\ ~o.dies)
          /\ os_failed' = (os_failed \/ o.cause = "os")
          /\ IF o.err # "none"
             THEN RecordRaise(o.err) /\ UNCHANGED recording
             ELSE /\ err' = err
                  /\ IF args.timed /\ elapsed
                     THEN RecordReturn(recording_data)
                     ELSE /\ pc' = "rec_read"
                          /\ UNCHANGED <<result, recording, cmd, igt, callIdx,
                                         recording_data>>
    /\ UNCHANGED <<clock, pad, controller_on, background_on, mouse_off,
                   args, queue, log, chord_all>>
    /\ UNCHANGED <<hookvars, calcvars, heapvars, scriptvars, runvars>>

(***************************************************************************)
(* The life of one PTDEHook.                                               *)
(***************************************************************************)
HookInit ==
    /\ EngineInit
    /\ ScriptIdle
    /\ CalcIdle
    /\ HeapIdle
    /\ hook_module \in HookModules
    /\ hook_state = "none"
    /\ w_handle = 0
    /\ handle = 0
    /\ xinput_address = 0
    /\ hook_err = "none"
    /\ window \in BOOLEAN
    /\ os_handles = {}
    /\ oscalls = <<>>

\* PTDEHook(): __init__ sets the fields and calls acquire(); when acquire
\* raises, the object is dropped at once and __del__ runs release()
Construct ==
    /\ hook_state = "none"
    /\ \E o \in AcquireOutcomes :
          LET torn == o.err # "none" IN
          /\ w_handle' = o.w_handle
          /\ handle' = o.handle
          /\ xinput_address' = o.xinput_address
          /\ hook_err' = o.err
          /\ window' = o.window
          /\ hook_state' = IF torn THEN "deleted" ELSE "live"
          /\ os_handles' = IF torn
                           THEN ReleaseHandles(os_handles \cup o.opened,
                                               o.handle, o.w_handle)
                           ELSE os_handles \cup o.opened
          /\ oscalls' = <<Ev("__init__", <<>>)>> \o o.calls
                        \o (IF torn
                            THEN <<Ev("__del__", <<>>)>>
                                 \o ReleaseCalls(o.handle, o.w_handle)
                            ELSE <<>>)
    /\ UNCHANGED <<hook_module, enginevars, calcvars, heapvars, scriptvars, runvars>>

\* acquire() on a hook that exists
HookAcquire ==
    /\ hook_state = "live"
    /\ Len(oscalls) < MaxHookLog
    /\ \E o \in AcquireOutcomes :
          /\ w_handle' = o.w_handle
          /\ handle' = o.handle
          /\ xinput_address' = o.xinput_address
          /\ hook_err' = o.err
          /\ window' = o.window
          /\ os_handles' = os_handles \cup o.opened
          /\ oscalls' = oscalls \o o.calls
    /\ UNCHANGED <<hook_module, hook_state, enginevars, calcvars, heapvars, scriptvars, runvars>>

\* release()
HookRelease ==
    /\ hook_state = "live"
    /\ Len(oscalls) < MaxHookLog
    /\ oscalls' = oscalls \o <<Ev("release", <<>>)>>
                  \o ReleaseCalls(handle, w_handle)
    /\ os_handles' = ReleaseHandles(os_handles, handle, w_handle)
    /\ hook_err' = "none"
    /\ UNCHANGED <<hook_module, hook_state, w_handle, handle, xinput_address,
                   window, enginevars, calcvars, heapvars, scriptvars, runvars>>

\* force_quit(): TerminateProcess, then release() when it reports success
HookForceQuit ==
    /\ hook_state = "live"
    /\ Len(oscalls) < MaxHookLog
    /\ \E o \in TerminateOutcomes :
          LET quit == o.err = "none" /\ o.result # 0 IN
          /\ window' = o.window
          /\ hook_err' = o.err
          /\ oscalls' = oscalls
                        \o <<Ev("force_quit", <<>>),
                             OsEv("TerminateProcess", o.result)>>
                        \o (IF quit
                            THEN <<Ev("release", <<>>)>>
                                 \o ReleaseCalls(handle, w_handle)
                            ELSE <<>>)
          /\ os_handles' = IF quit
                           THEN ReleaseHandles(os_handles, handle, w_handle)
                           ELSE os_handles
    /\ UNCHANGED <<hook_module, hook_state, w_handle, handle, xinput_address,
                   enginevars, calcvars, heapvars, scriptvars, runvars>>

\* the hook is dropped: __del__ runs release()
HookDel ==
    /\ hook_state = "live"
    /\ hook_state' = "deleted"
    /\ oscalls' = oscalls \o <<Ev("__del__", <<>>)>>
                  \o ReleaseCalls(handle, w_handle)
    /\ os_handles' = ReleaseHandles(os_handles, handle, w_handle)
    /\ hook_err' = "none"
    /\ UNCHANGED <<hook_module, w_handle, handle, xinput_address, window,
                   enginevars, calcvars, heapvars, scriptvars, runvars>>

\* the game exits: its window is gone
WindowGone ==
    /\ hook_state = "live"
    /\ window
    /\ window' = FALSE
    /\ UNCHANGED <<hook_module, hook_state, w_handle, handle, xinput_address,
                   hook_err, os_handles, oscalls, enginevars, calcvars, heapvars, scriptvars, runvars>>

\* the game is started again
WindowBack ==
    /\ hook_state = "live"
    /\ ~window
    /\ window' = TRUE
    /\ UNCHANGED <<hook_module, hook_state, w_handle, handle, xinput_address,
                   hook_err, os_handles, oscalls, enginevars, calcvars, heapvars, scriptvars, runvars>>

\* read_input(), write_input(row), igt() or frame_count()
HookAccess ==
    /\ hook_state = "live"
    /\ Len(oscalls) < MaxHookLog
    /\ \E name \in Accessors, p1 \in PointerValues, p2 \in PointerValues :
          LET o == AccessOutcome(name, p1, p2) IN
          /\ hook_err' = o.err
          /\ oscalls' = oscalls \o <<Ev(name, <<>>)>> \o o.calls
    /\ UNCHANGED <<hook_module, hook_state, w_handle, handle, xinput_address,
                   window, os_handles, enginevars, calcvars, heapvars, scriptvars, runvars>>

HookNext ==
    \/ Construct \/ HookAcquire \/ HookRelease \/ HookForceQuit \/ HookDel
    \/ WindowGone \/ WindowBack \/ HookAccess

HookSpec == HookInit /\ [][HookNext]_vars

(***************************************************************************)
(* The persisted form: to_string is json.dumps of the keylist, a JSON      *)
(* array of arrays of integers; from_string is from_list of json.loads.    *)
(* The text is a sequence of characters.                                   *)
(***************************************************************************)
DigitChars == <<"0", "1", "2", "3", "4", "5", "6", "7", "8", "9">>

RECURSIVE NatToChars(_)
NatToChars(n) ==
    IF n < 10 THEN <<DigitChars[n + 1]>>
    ELSE NatToChars(n \div 10) \o <<DigitChars[(n % 10) + 1]>>

\* variant: the sign of a negative value is not written
IntToChars_NoSign(n) == IF n < 0 THEN NatToChars(-n) ELSE NatToChars(n)

\* json.dumps of an int
IntToChars(n) == IF n < 0 THEN <<"-">> \o NatToChars(-n) ELSE NatToChars(n)

\* json.dumps of a list, given the texts of its items: "[a, b, c]"
RECURSIVE JoinItems(_)
JoinItems(texts) ==
    IF texts = <<>> THEN <<>>
    ELSE IF Len(texts) = 1 THEN texts[1]
    ELSE texts[1] \o <<",", " ">> \o JoinItems(Tail(texts))

ListToChars(texts) == <<"[">> \o JoinItems(texts) \o <<"]">>

\* json.dumps of a list of rows
JsonDumps(rows) ==
    ListToChars([r \in 1..Len(rows) |->
        ListToChars([i \in 1..Len(rows[r]) |-> IntToChars(rows[r][i])])])

\* KeySequence.to_string
KeySequenceToString(sequence) == JsonDumps(KeySequenceKeylist(sequence))

IsDigit(c) == \E d \in 1..10 : DigitChars[d] = c
DigitValue(c) == (CHOOSE d \in 1..10 : DigitChars[d] = c) - 1

\* the digits from position i on: the value read and the position after it
RECURSIVE ParseDigits(_, _, _)
ParseDigits(chars, i, acc) ==
    IF i <= Len(chars) /\ IsDigit(chars[i])
    THEN ParseDigits(chars, i + 1, acc * 10 + DigitValue(chars[i]))
    ELSE [val |-> acc, next |-> i]

\* json.loads of an int at position i
ParseInt(chars, i) ==
    IF chars[i] = "-"
    THEN LET d == ParseDigits(chars, i + 1, 0) IN [val |-> 0 - d.val, next |-> d.next]
    ELSE ParseDigits(chars, i, 0)

\* the ints of a row from position i on, up to and over the closing bracket
RECURSIVE ParseItems(_, _, _)
ParseItems(chars, i, row) ==
    IF chars[i] = "]" THEN [val |-> row, next |-> i + 1]
    ELSE IF chars[i] \in {",", " "} THEN ParseItems(chars, i + 1, row)
    ELSE LET n == ParseInt(chars, i) IN ParseItems(chars, n.next, Append(row, n.val))

\* the rows from position i on
RECURSIVE ParseRows(_, _, _)
ParseRows(chars, i, rows) ==
    IF chars[i] = "]" THEN rows
    ELSE IF chars[i] \in {",", " "} THEN ParseRows(chars, i + 1, rows)
    ELSE LET r == ParseItems(chars, i + 1, <<>>) IN
         ParseRows(chars, r.next, Append(rows, r.val))

\* json.loads of a list of rows
JsonLoads(chars) == ParseRows(chars, 2, <<>>)

\* KeySequence.from_string
KeySequenceFromString(chars) == AsSequence(KeySequenceFromList(JsonLoads(chars)))

(***************************************************************************)
(* The operators of controller.py applied to operands: one operator per    *)
(* behaviour, on operands drawn from the sets below.                       *)
(***************************************************************************)
MaxTimes == 2       \* largest int a KeyPress is multiplied by
MaxStored == 3      \* longest stored list of a KeySequence under an operator

\* rows with a trigger or a stick axis set
RowFullTrigger == [Neutral EXCEPT ![15] = 255]
RowHalfTrigger == [Neutral EXCEPT ![15] = 100, ![11] = 1]
RowRight == [Neutral EXCEPT ![17] = 20000]
RowLeft == [Neutral EXCEPT ![17] = -20000]
RowFarLeft == [Neutral EXCEPT ![17] = -32768, ![18] = 5]
AndRows == {Neutral, RowA, RowFullTrigger, RowHalfTrigger,
            RowRight, RowLeft, RowFarLeft}

\* the frames (KeyPress) an operator is applied to
PressOperands == {AsPress(KeyPress(f, k)) : f \in 0..MaxFrames, k \in AndRows}
\* frames with a trigger or a negative stick value
StickPresses ==
    {KeyPress(f, k) : f \in 1..MaxFrames, k \in {RowFullTrigger, RowLeft, RowFarLeft}}
\* a list of raw rows as a value
AsRows(rows) == [kind |-> "list", press |-> NoPress, seq |-> <<>>, rows |-> rows]
\* raw rows of 19 and of 21 values
RowShort == SubSeq(RowA, 1, NumKeys - 1)
RowLong == Append(RowA, 1)
RawRows == {Neutral, RowA, RowShort, RowLong}
\* rows for write_input: each button alone, everything at its largest, and
\* the rows with triggers and sticks
OneButton(n) == [Neutral EXCEPT ![n] = 1]
RowAll ==
    [i \in 1..NumKeys |->
        IF i <= 14 THEN 1 ELSE IF i <= 16 THEN 255
        ELSE IF i = 17 THEN 32767 ELSE IF i = 18 THEN -32768
        ELSE IF i = 19 THEN -1 ELSE 256]
LayoutRows ==
    {OneButton(n) : n \in 1..14}
    \cup {RowAll, RowFullTrigger, RowHalfTrigger, RowRight, RowLeft, RowFarLeft}
\* what stands left of an operator
LeftOperands ==
    PressOperands
    \cup {AsSequence(l) : l \in ListsUpTo(PressInputs, MaxStored)}
    \cup {AsSequence(l) : l \in ListsUpTo(StickPresses, MaxSeqLen)}
    \cup {AsRows(l) : l \in ListsUpTo(RawRows, MaxSeqLen)}
    \cup {AsRows(<<row>>) : row \in LayoutRows}
\* what stands right of +
RightOperands ==
    {AsPress(p) : p \in PressInputs}
    \cup {AsSequence(l) : l \in ListsUpTo(PressInputs, MaxSeqLen)}

OperatorInit ==
    /\ EngineInit
    /\ ScriptIdle
    /\ HookAttached
    /\ HeapIdle
    /\ lhs \in LeftOperands
    /\ rhs = Other("none")
    /\ times = 0
    /\ op = "none"
    /\ out = Other("none")
    /\ stored = <<>>

\* lhs + b
ApplyAdd ==
    /\ op = "none"
    /\ lhs.kind \in {"KeyPress", "KeySequence"}
    /\ lhs.kind = "KeySequence" => Len(lhs.seq) <= MaxSeqLen
    /\ \E b \in RightOperands :
          /\ rhs' = b
          /\ out' = Add(lhs, b)
    /\ op' = "add"
    /\ UNCHANGED <<lhs, times, stored, enginevars, hookvars, heapvars, scriptvars, runvars>>

\* lhs * n
ApplyMul ==
    /\ op = "none"
    /\ lhs.kind = "KeyPress"
    /\ \E n \in 0..MaxTimes :
          /\ times' = n
          /\ out' = AsPress(KeyPressMul(lhs.press, n))
    /\ op' = "mul"
    /\ UNCHANGED <<lhs, rhs, stored, enginevars, hookvars, heapvars, scriptvars, runvars>>

\* n * lhs
ApplyRmul ==
    /\ op = "none"
    /\ lhs.kind = "KeyPress"
    /\ \E n \in 0..MaxTimes :
          /\ times' = n
          /\ out' = AsPress(KeyPressRmul(lhs.press, n))
    /\ op' = "rmul"
    /\ UNCHANGED <<lhs, rhs, stored, enginevars, hookvars, heapvars, scriptvars, runvars>>

\* lhs & b
ApplyAnd ==
    /\ op = "none"
    /\ lhs.kind = "KeyPress"
    /\ \E b \in PressOperands :
          /\ rhs' = b
          /\ out' = AsPress(KeyPressAnd(lhs.press, b.press))
    /\ op' = "and"
    /\ UNCHANGED <<lhs, times, stored, enginevars, hookvars, heapvars, scriptvars, runvars>>

\* lhs == b
ApplyEq ==
    /\ op = "none"
    /\ lhs.kind = "KeyPress"
    /\ \E b \in PressOperands :
          /\ rhs' = b
          /\ out' = Other(IF KeyPressEq(lhs.press, b.press) THEN "True" ELSE "False")
    /\ op' = "eq"
    /\ UNCHANGED <<lhs, times, stored, enginevars, hookvars, heapvars, scriptvars, runvars>>

\* condense() of a KeySequence whose stored list is lhs.seq
ApplyCondense ==
    /\ op = "none"
    /\ lhs.kind = "KeySequence"
    /\ out' = AsSequence(Condense(lhs.seq))
    /\ op' = "condense"
    /\ UNCHANGED <<lhs, rhs, times, stored, enginevars, hookvars, heapvars, scriptvars, runvars>>

\* KeySequence.from_string(lhs.to_string())
ApplyRoundTrip ==
    /\ op = "none"
    /\ lhs.kind = "KeySequence"
    /\ out' = KeySequenceFromString(KeySequenceToString(lhs.seq))
    /\ op' = "roundtrip"
    /\ UNCHANGED <<lhs, rhs, times, stored, enginevars, hookvars, heapvars, scriptvars, runvars>>

\* KeySequence.from_list(lhs)
ApplyFromList ==
    /\ op = "none"
    /\ lhs.kind = "list"
    /\ out' = AsSequence(KeySequenceFromList(lhs.rows))
    /\ op' = "from_list"
    /\ UNCHANGED <<lhs, rhs, times, stored, enginevars, hookvars, heapvars, scriptvars, runvars>>

\* TAS._push(lhs) on an empty queue
ApplyPush ==
    /\ op = "none"
    /\ lhs.kind = "list"
    /\ LET r == Push(<<>>, lhs.rows) IN
          out' = IF r.err = "none" THEN AsRows(r.queue) ELSE Other(r.err)
    /\ op' = "push"
    /\ UNCHANGED <<lhs, rhs, times, stored, enginevars, hookvars, heapvars, scriptvars, runvars>>

\* write_input(row) builds the 12 bytes (kept in rhs), read_input decodes
\* them
ApplyWriteRead ==
    /\ op = "none"
    /\ lhs.kind = "list"
    /\ Len(lhs.rows) = 1
    /\ Len(lhs.rows[1]) = NumKeys
    /\ RowInRange(lhs.rows[1])
    /\ rhs' = AsRows(<<WriteInputBytes(lhs.rows[1])>>)
    /\ out' = AsRows(<<ReadInputRow(WriteInputBytes(lhs.rows[1]))>>)
    /\ op' = "write_read"
    /\ UNCHANGED <<lhs, times, stored, enginevars, hookvars, heapvars, scriptvars, runvars>>

\* condense() a second time on the same KeySequence; rhs keeps what the
\* first call stored
ApplyCondenseAgain ==
    /\ op = "condense"
    /\ rhs' = out
    /\ out' = AsSequence(Condense(out.seq))
    /\ op' = "condense2"
    /\ UNCHANGED <<lhs, times, stored, enginevars, hookvars, heapvars, scriptvars, runvars>>

OperatorNext ==
    \/ ApplyAdd \/ ApplyMul \/ ApplyRmul \/ ApplyAnd \/ ApplyEq \/ ApplyCondense
    \/ ApplyCondenseAgain \/ ApplyRoundTrip \/ ApplyFromList \/ ApplyPush
    \/ ApplyWriteRead

OperatorSpec == OperatorInit /\ [][OperatorNext]_vars

(***************************************************************************)
(* One KeySequence object under its mutating methods.                      *)
(***************************************************************************)
MaxStoredFrames == 4    \* most frames the object is grown to

\* KeySequence(l) has been constructed
SequenceInit ==
    /\ EngineInit
    /\ ScriptIdle
    /\ HookAttached
    /\ HeapIdle
    /\ lhs = Other("none")
    /\ rhs = Other("none")
    /\ times = 0
    /\ op = "__init__"
    /\ out = Other("none")
    /\ stored \in {KeySequenceInit(Items(l)).seq :
                     l \in ListsUpTo(PressInputs, MaxSeqLen)}

ObjAppend ==
    /\ Len(stored) < MaxStored
    /\ \E keypress \in PressInputs : stored' = SeqAppend(stored, keypress)
    /\ FrameCount(stored') <= MaxStoredFrames
    /\ op' = "append"
    /\ UNCHANGED <<lhs, rhs, times, out, enginevars, hookvars, heapvars, scriptvars, runvars>>

ObjExtend ==
    /\ \E keypresses \in ListsUpTo(PressInputs, MaxSeqLen) :
          /\ Len(stored) + Len(keypresses) <= MaxStored
          /\ stored' = SeqExtend(stored, keypresses)
    /\ FrameCount(stored') <= MaxStoredFrames
    /\ op' = "extend"
    /\ UNCHANGED <<lhs, rhs, times, out, enginevars, hookvars, heapvars, scriptvars, runvars>>

ObjSetItem ==
    /\ \E key \in 1..Len(stored), value \in PressInputs :
          stored' = SeqSetItem(stored, key, value)
    /\ FrameCount(stored') <= MaxStoredFrames
    /\ op' = "__setitem__"
    /\ UNCHANGED <<lhs, rhs, times, out, enginevars, hookvars, heapvars, scriptvars, runvars>>

ObjCondense ==
    /\ stored' = Condense(stored)
    /\ op' = "condense"
    /\ UNCHANGED <<lhs, rhs, times, out, enginevars, hookvars, heapvars, scriptvars, runvars>>

\* seq = seq + b: the name is bound to the combination
ObjAdd ==
    /\ \E b \in RightOperands :
          LET r == Add(AsSequence(stored), b) IN
          /\ r.kind = "KeySequence"
          /\ Len(r.seq) <= MaxStored
          /\ stored' = r.seq
    /\ FrameCount(stored') <= MaxStoredFrames
    /\ op' = "add"
    /\ UNCHANGED <<lhs, rhs, times, out, enginevars, hookvars, heapvars, scriptvars, runvars>>

SequenceNext ==
    \/ ObjAppend \/ ObjExtend \/ ObjSetItem \/ ObjCondense \/ ObjAdd

SequenceSpec == SequenceInit /\ [][SequenceNext]_vars

(***************************************************************************)
(* KeyPress and KeySequence objects with their identity: heap[i] is the    *)
(* KeyPress object i, seqs[j] the list of objects that KeySequence j       *)
(* stores.  copy() makes a new object; an assignment to .frames changes    *)
(* the object for everyone who holds it.                                   *)
(***************************************************************************)
MaxHeap == 4        \* an operation starts only while it fits this many objects
MaxSeqs == 2        \* KeySequence objects constructed
MaxItems == 2       \* items handed to KeySequence(...)

HeapPresses == {KeyPress(1, RowA), KeyPress(1, Neutral)}

\* variant: no copy is made, the name is bound to the same object
Copy_Alias(h, obj) == [heap |-> h, ref |-> obj]

\* copy(obj): a new object with the same values
Copy(h, obj) == [heap |-> Append(h, h[obj]), ref |-> Len(h) + 1]

\* the loop of condense() on objects
RECURSIVE HeapCondenseLoop(_, _, _, _)
HeapCondenseLoop(h, rest, current_press, newseq) ==
    IF rest = <<>>
    THEN LET c == Copy(h, current_press) IN
         [heap |-> c.heap, seq |-> Append(newseq, c.ref)]
    ELSE LET press == Head(rest) IN
         IF KeyPressKeylist(h[press]) = <<>>
         THEN HeapCondenseLoop(h, Tail(rest), current_press, newseq)
         ELSE IF KeyPressKeylist(h[current_press]) = <<>>
         THEN LET c == Copy(h, press) IN
              HeapCondenseLoop(c.heap, Tail(rest), c.ref, newseq)
         ELSE IF KeyPressKeylist(h[press])[1] = KeyPressKeylist(h[current_press])[1]
         THEN HeapCondenseLoop(
                 [h EXCEPT ![current_press].frames = @ + h[press].frames],
                 Tail(rest), current_press, newseq)
         ELSE LET c == Copy(h, press) IN
              HeapCondenseLoop(c.heap, Tail(rest), c.ref,
                               Append(newseq, current_press))

\* condense() on the list seq of objects
HeapCondense(h, seq) ==
    IF Len(seq) > 1
    THEN LET c == Copy(h, seq[1]) IN
         HeapCondenseLoop(c.heap, Tail(seq), c.ref, <<>>)
    ELSE [heap |-> h, seq |-> seq]

\* the for loop of KeySequence.__init__: a KeyPress item is copied, the
\* objects of a KeySequence item are taken as they are
RECURSIVE HeapCollect(_, _, _)
HeapCollect(h, items, seq) ==
    IF items = <<>> THEN [heap |-> h, seq |-> seq]
    ELSE LET item == Head(items) IN
         IF item.kind = "KeyPress"
         THEN LET c == Copy(h, item.ref) IN
              HeapCollect(c.heap, Tail(items), Append(seq, c.ref))
         ELSE HeapCollect(h, Tail(items), seq \o seqs[item.ref])

\* KeySequence(items)
HeapKeySequence(h, items) ==
    LET c == HeapCollect(h, items, <<>>) IN HeapCondense(c.heap, c.seq)

PressRef(obj) == [kind |-> "KeyPress", ref |-> obj]
SeqRef(j) == [kind |-> "KeySequence", ref |-> j]
Refs == {PressRef(i) : i \in 1..Len(heap)} \cup {SeqRef(j) : j \in 1..Len(seqs)}
\* [*x._sequence]
PressRefs(seq) == [i \in 1..Len(seq) |-> PressRef(seq[i])]
\* the items a + b hands to KeySequence(...)
AddItems(a, b) ==
    (IF a.kind = "KeyPress" THEN <<a>> ELSE PressRefs(seqs[a.ref]))
    \o (IF b.kind = "KeyPress" THEN <<b>> ELSE PressRefs(seqs[b.ref]))

\* KeySequence j holds an object that another KeySequence holds too
Shares(j) ==
    \E k \in 1..Len(seqs) : \E m \in 1..Len(seqs[j]), n \in 1..Len(seqs[k]) :
        k # j /\ seqs[j][m] = seqs[k][n]

HeapInit ==
    /\ EngineInit
    /\ ScriptIdle
    /\ HookAttached
    /\ CalcIdle
    /\ heap \in [1..2 -> HeapPresses]
    /\ seqs = <<>>
    /\ hop = "none"
    /\ aliased = FALSE

\* a scenario builds values with the operators, then appends an object to a
\* KeySequence it built, then condenses one of them
Building == hop \notin {"append", "condense"}

\* KeySequence(items)
HeapNew ==
    /\ Building
    /\ Len(seqs) < MaxSeqs
    /\ Len(heap) < MaxHeap
    /\ \E items \in ListsUpTo(Refs, MaxItems) :
          LET r == HeapKeySequence(heap, items) IN
          /\ heap' = r.heap
          /\ seqs' = Append(seqs, r.seq)
    /\ hop' = "__init__"
    /\ UNCHANGED <<aliased, enginevars, hookvars, calcvars, scriptvars, runvars>>

\* a + b
HeapAdd ==
    /\ Building
    /\ Len(seqs) < MaxSeqs
    /\ Len(heap) < MaxHeap
    /\ \E a \in Refs, b \in Refs :
          LET r == HeapKeySequence(heap, AddItems(a, b)) IN
          /\ heap' = r.heap
          /\ seqs' = Append(seqs, r.seq)
    /\ hop' = "add"
    /\ UNCHANGED <<aliased, enginevars, hookvars, calcvars, scriptvars, runvars>>

\* obj * n: newpress = copy(self); newpress.frames = self.frames * n
HeapMul ==
    /\ Building
    /\ Len(heap) < MaxHeap
    /\ \E obj \in 1..Len(heap), n \in 0..MaxTimes :
          LET c == Copy(heap, obj) IN
          heap' = [c.heap EXCEPT ![c.ref].frames = heap[obj].frames * n]
    /\ hop' = "mul"
    /\ UNCHANGED <<seqs, aliased, enginevars, hookvars, calcvars, scriptvars, runvars>>

\* a & b: a new KeyPress
HeapAnd ==
    /\ Building
    /\ Len(heap) < MaxHeap
    /\ \E a \in 1..Len(heap), b \in 1..Len(heap) :
          heap' = Append(heap, KeyPressAnd(heap[a], heap[b]))
    /\ hop' = "and"
    /\ UNCHANGED <<seqs, aliased, enginevars, hookvars, calcvars, scriptvars, runvars>>

\* seqs[j].append(obj): the object itself is stored
HeapAppend ==
    /\ Building
    /\ \E j \in 1..Len(seqs), obj \in 1..Len(heap) :
          /\ Len(seqs[j]) < MaxItems
          /\ seqs' = [seqs EXCEPT ![j] = Append(@, obj)]
    /\ hop' = "append"
    /\ UNCHANGED <<heap, aliased, enginevars, hookvars, calcvars, scriptvars, runvars>>

\* seqs[j].condense()
HeapCondenseCall ==
    /\ hop # "condense"
    /\ Len(heap) < MaxHeap
    /\ \E j \in 1..Len(seqs) :
          LET r == HeapCondense(heap, seqs[j]) IN
          /\ heap' = r.heap
          /\ seqs' = [seqs EXCEPT ![j] = r.seq]
          /\ aliased' = Shares(j)
    /\ hop' = "condense"
    /\ UNCHANGED <<enginevars, hookvars, calcvars, scriptvars, runvars>>

HeapNext ==
    \/ HeapNew \/ HeapAdd \/ HeapMul \/ HeapAnd \/ HeapAppend \/ HeapCondenseCall

HeapSpec == HeapInit /\ [][HeapNext]_vars

(***************************************************************************)
(* scripts/glitches.py and scripts/ptde/glitches.py: force_quit.  The      *)
(* script polls igt() and frame_count(); a read gives the game's counter,  *)
(* which does not go back, or 0 when the second read of the chain fails.   *)
(***************************************************************************)
MaxIgt == 2
MaxFrame == 2
MaxDelay == 1
MaxPolls == 3

\* the exceptions the loop catches
ClockErrors == {"GameNotRunningError", "RuntimeError", "OSError"}

\* the largest value of a field over the pairs read so far
RECURSIVE Highest(_, _)
Highest(ps, f) ==
    IF ps = <<>> THEN 0
    ELSE LET h == Highest(SubSeq(ps, 1, Len(ps) - 1), f)
             v == ps[Len(ps)][f]
         IN IF v > h THEN v ELSE h

\* what tas_engine.igt() and tas_engine.frame_count() can give
IgtReads == {0} \cup (Highest(polls, "igt")..MaxIgt)
FrameReads == {0} \cup (Highest(polls, "frame")..MaxFrame)

\* variant: the delay is not waited for
QuitDue_NoDelay(wait, delay) == TRUE

\* if frame_wait >= delay_frames
QuitDue(wait, delay) == wait >= delay

\* force_quit(tas_engine, delay_frames): the reads before the loop are
\* outside the try block, an exception of theirs goes to the caller
ForceQuitStart ==
    /\ fq_pc = "idle"
    /\ \E d \in 0..MaxDelay, e \in {"none"} \cup ClockErrors,
          i \in IgtReads, f \in FrameReads :
          /\ delay_frames' = d
          /\ fq_err' = e
          /\ IF e # "none"
             THEN /\ fq_pc' = "raised"
                  /\ UNCHANGED <<fq_igt, last_frame, polls>>
             ELSE /\ fq_pc' = "loop"
                  /\ fq_igt' = i
                  /\ last_frame' = f
                  /\ polls' = <<[igt |-> i, frame |-> f]>>
    /\ igt_running' = TRUE
    /\ frame_wait' = 0
    /\ quits' = 0
    /\ UNCHANGED <<enginevars, hookvars, calcvars, heapvars, runvars>>

\* one pass of the while loop: the try block, then sleep(0.01)
ForceQuitPoll ==
    /\ fq_pc = "loop"
    /\ Len(polls) <= MaxPolls
    /\ \E e \in {"none"} \cup ClockErrors, new_igt \in IgtReads,
          new_frame \in FrameReads, q \in {"none", "ValueError"} :
          IF e # "none"
          THEN /\ fq_pc' = "done"
               /\ fq_err' = e
               /\ UNCHANGED <<fq_igt, last_frame, igt_running, frame_wait,
                              polls, quits>>
          ELSE /\ polls' = Append(polls, [igt |-> new_igt, frame |-> new_frame])
               /\ IF new_igt # 0 /\ new_igt > fq_igt
                  THEN IF ~igt_running /\ QuitDue(frame_wait, delay_frames)
                       THEN /\ quits' = quits + 1
                            /\ fq_err' = q
                            /\ fq_pc' = IF q = "none" THEN "done" ELSE "raised"
                            /\ UNCHANGED <<fq_igt, last_frame, igt_running,
                                           frame_wait>>
                       ELSE /\ frame_wait' = IF ~igt_running
                                             THEN frame_wait + 1
                                             ELSE frame_wait
                            /\ fq_igt' = new_igt
                            /\ last_frame' = new_frame
                            /\ UNCHANGED <<fq_pc, fq_err, igt_running, quits>>
                  ELSE /\ igt_running' = IF new_frame > last_frame + 1
                                            /\ igt_running
                                         THEN FALSE
                                         ELSE igt_running
                       /\ last_frame' = new_frame
                       /\ UNCHANGED <<fq_pc, fq_err, fq_igt, frame_wait,
                                      quits>>
    /\ UNCHANGED delay_frames
    /\ UNCHANGED <<enginevars, hookvars, calcvars, heapvars, runvars>>

ScriptInit ==
    /\ EngineInit
    /\ HookAttached
    /\ CalcIdle
    /\ HeapIdle
    /\ ScriptIdle

ScriptNext == ForceQuitStart \/ ForceQuitPoll

ScriptSpec == ScriptInit /\ [][ScriptNext]_vars

(***************************************************************************)
(* The specification.                                                      *)
(***************************************************************************)
\* the steps of an operation that has been called
EngineStep ==
    \/ Enter \/ Igt0 \/ Poll0 \/ Sleep0 \/ Nap \/ Write \/ Effect
    \/ Igt1 \/ Poll1 \/ Sleep1 \/ ClearQueue \/ Exit \/ Leave
    \/ ButtonWaitRead \/ ButtonWaitSleep \/ RecordRead
    \/ RecordIgt \/ RecordPoll \/ RecordSleep \/ RecordDiff

Next ==
    \/ Tick \/ TargetExit \/ Return
    \/ RunStart \/ Enter \/ Igt0 \/ Poll0 \/ Sleep0 \/ Nap \/ Write \/ Effect
    \/ Igt1 \/ Poll1 \/ Sleep1 \/ ClearQueue \/ Exit \/ Leave
    \/ RecordStart \/ ButtonWaitRead \/ ButtonWaitSleep \/ RecordRead
    \/ RecordIgt \/ RecordPoll \/ RecordSleep \/ RecordDiff

Spec == Init /\ [][Next]_vars

\* calls of run() one after another, each noting what it found in the queue
RunNext ==
    \/ Tick \/ TargetExit \/ Return
    \/ RunStartNoted \/ Enter \/ Igt0 \/ Poll0 \/ Sleep0 \/ Nap \/ Write \/ Effect
    \/ Igt1 \/ Poll1 \/ Sleep1 \/ ClearQueue \/ Exit \/ Leave

RunSpec == Init /\ [][RunNext]_vars

\* the engine is one blocking thread: while an operation runs, its next
\* step is taken.  When the caller calls the next operation, and whether
\* the target ticks or exits, is left open.
FairSpec == Spec /\ WF_vars(EngineStep)

(***************************************************************************)
(* Properties.                                                             *)
(***************************************************************************)
CtlOff == Ev("controller", Flag(FALSE))
CtlOn == Ev("controller", Flag(TRUE))
BgOff == Ev("background_input", Flag(FALSE))

IsWrite(e) == e.call = "write_input"
IsSample(e) == e.call = "sample"
IsClockRead(e) == e.call \in {"igt", "tick"}

\* the rows handed to write_input so far, in order
WrittenRows == LET w == SelectSeq(log, IsWrite) IN [i \in 1..Len(w) |-> w[i].arg]

IsPrefix(s, t) == Len(s) <= Len(t) /\ \A i \in 1..Len(s) : s[i] = t[i]

\* run() has come back to its caller
RunEnded == pc = "done" /\ args.op = "run"
\* record() has come back to its caller
RecordEnded == pc = "done" /\ args.op = "record"

\* the last two calls made are background_input(False), controller(True)
RestoredLast ==
    /\ Len(log) >= 2
    /\ log[Len(log) - 1] = BgOff
    /\ log[Len(log)] = CtlOn

C3_OneWritePerRow ==
    (RunEnded /\ result = "returned" /\ ~args.empty) =>
        /\ WrittenRows = args.keylist
        /\ \A i \in 1..Len(log) :
              /\ IsWrite(log[i]) /\ args.display =>
                    /\ i < Len(log)
                    /\ log[i + 1] = Ev("side_effect", log[i].arg)
              /\ log[i].call = "side_effect" =>
                    /\ args.display
                    /\ i > 1
                    /\ log[i - 1] = Ev("write_input", log[i].arg)
        /\ \A i, j \in 1..Len(log) :
              (i < j /\ IsWrite(log[i]) /\ IsWrite(log[j])) =>
                 \E k, m \in (i + 1)..(j - 1) :
                    /\ k < m
                    /\ log[k] = Ev("igt", <<>>)
                    /\ log[m] = Ev("tick", Flag(TRUE))
                    /\ \A n \in (i + 1)..(k - 1) : ~IsClockRead(log[n])

\* a displayed run of two different rows that returned
C3_Witness ==
    /\ RunEnded /\ result = "returned" /\ args.display
    /\ Len(args.keylist) = 2
    /\ args.keylist[1] # args.keylist[2]
    /\ WrittenRows = args.keylist

\* C4: whenever run() has returned or raised, the queue is empty.
C4_QueueEmptyAtEnd == RunEnded => queue = <<>>

C6_OsFailureSurfaces ==
    (pc = "done" /\ os_failed) =>
        (result = "raised" /\ err = "GameNotRunningError")

PollPcs == {"poll0", "poll1", "rec_poll"}
WaitPcs == PollPcs \cup {"sleep0", "sleep1", "rec_sleep"}

\* C7: once the target is gone, a clock read of a frame-boundary wait ends
\* the wait with an exception, and the engine does not stay in the wait.
C7_DeadTargetEndsWait ==
    /\ [][(pc \in PollPcs /\ ~alive) =>
            (pc' \notin WaitPcs /\ err' = "RuntimeError")]_vars
    /\ (pc \in WaitPcs /\ ~alive) ~> (pc \notin WaitPcs)

\* the wait after a write was left with an exception, the target gone
C7_Witness ==
    /\ pc = "exit" /\ callIdx = 1 /\ args.op = "run"
    /\ ~alive /\ err = "RuntimeError"
    /\ log # <<>> /\ log[Len(log)] = Ev("igt", <<>>)
    /\ WrittenRows # <<>>

\* C8: run()'s per-frame wait does not go on forever on a clock that stays
\* at the value read.
C8_FrozenClockTimesOut ==
    ~<>[](pc \in {"poll1", "sleep1"} /\ alive /\ clock = igt)

\* C9: run() on an empty sequence makes no hook call and leaves the queue
\* empty when it returns.
C9_EmptyRunLeavesQueueEmpty ==
    (RunEnded /\ args.empty) =>
        (result = "returned" /\ log = <<>> /\ queue = <<>>)

\* start and back are both held in a row
IsChord(row) == row[5] = 1 /\ row[6] = 1

\* C10: no sample with start and back held is ever captured; such a sample
\* is the last thing record() does before it returns; and a record() with
\* button_wait whose every read found the chord returns an empty sequence
\* without a single clock read.
C10_ChordStopsRecord ==
    /\ \A i \in 1..Len(recording_data) : ~IsChord(recording_data[i])
    /\ \A i \in 1..Len(log) :
          (IsSample(log[i]) /\ IsChord(log[i].arg)) =>
             /\ i = Len(log)
             /\ RecordEnded /\ result = "returned"
             /\ FrameCount(recording) = Len(SelectSeq(log, IsSample)) - 1
    /\ (RecordEnded /\ result = "returned" /\ args.button_wait /\ chord_all) =>
          /\ recording = <<>>
          /\ \A i \in 1..Len(log) : ~IsClockRead(log[i])

\* record() with button_wait met the chord at every read and returned
C10_Witness ==
    /\ RecordEnded /\ result = "returned"
    /\ args.button_wait /\ chord_all
    /\ recording = <<>>

\* record() captured a frame and was then stopped by the chord
C10_WitnessStop ==
    /\ RecordEnded /\ result = "returned"
    /\ recording # <<>>
    /\ log # <<>> /\ IsSample(log[Len(log)]) /\ IsChord(log[Len(log)].arg)

\* the rows sampled by record() so far, in order
SampledRows == LET w == SelectSeq(log, IsSample) IN [i \in 1..Len(w) |-> w[i].arg]

\* the samples taken before the stop condition
CapturedRows ==
    IF SampledRows # <<>> /\ IsChord(SampledRows[Len(SampledRows)])
    THEN SubSeq(SampledRows, 1, Len(SampledRows) - 1)
    ELSE SampledRows

\* C11: between two consecutive samples of record() the engine read the
\* clock and then saw a value different from that read; while record()
\* runs its capture is the list of samples before the stop condition, and
\* the flattened form of the sequence it returns is that list, in order.
C11_OneSamplePerTick ==
    /\ \A i, j \in 1..Len(log) :
          (i < j /\ IsSample(log[i]) /\ IsSample(log[j])) =>
             \E k, m \in (i + 1)..(j - 1) :
                /\ k < m
                /\ log[k] = Ev("igt", <<>>)
                /\ log[m] = Ev("tick", Flag(TRUE))
    /\ (args.op = "record" /\ pc # "done") => recording_data = CapturedRows
    /\ (RecordEnded /\ result = "returned") =>
          KeySequenceKeylist(recording) = CapturedRows

\* record() sampled the same row on two ticks and was stopped by the chord
C11_Witness ==
    /\ RecordEnded /\ result = "returned"
    /\ Len(CapturedRows) = 2
    /\ CapturedRows[1] = CapturedRows[2]
    /\ Len(SampledRows) = 3

\* the process handles OpenProcess has handed out
OpenedHandles ==
    {oscalls[i].arg[1] : i \in {j \in 1..Len(oscalls) :
        IsOpenProcess(oscalls[j]) /\ oscalls[j].arg[1] # 0}}

\* the number of CloseHandle calls made for h
CloseCount(h) ==
    LET IsCloseOf(e) == e = OsEv("CloseHandle", h)
    IN  Len(SelectSeq(oscalls, IsCloseOf))

\* C12: no process handle obtained by an acquire() is closed more than
\* once, and once the hook is torn down each of them has been closed
\* exactly once.
C12_HandlesClosedOnce ==
    /\ \A h \in OpenedHandles : CloseCount(h) <= 1
    /\ hook_state = "deleted" => \A h \in OpenedHandles : CloseCount(h) = 1

\* no acquire() was called after position i of the log, up to position j
NoAcquireBetween(i, j) == \A k \in (i + 1)..j : oscalls[k].call # "acquire"

\* C13: when the acquire() of a hook that never held a process handle finds
\* no window, it makes no OpenProcess call and raises GameNotRunningError;
\* the hook has no process handle and no module base address, and until the
\* next acquire() nothing calls CloseHandle.
C13_NoWindowNoAttach ==
    \A i \in 1..Len(oscalls) :
        (oscalls[i] = OsEv("FindWindow", 0) /\ OpenedHandles = {}) =>
            /\ \A j \in (i + 1)..Len(oscalls) :
                  NoAcquireBetween(i, j) =>
                     oscalls[j].call \notin {"OpenProcess", "CloseHandle"}
            /\ NoAcquireBetween(i, Len(oscalls)) =>
                  /\ handle = 0
                  /\ xinput_address = 0
            /\ (\A j \in (i + 1)..Len(oscalls) : oscalls[j].call = "__del__") =>
                  hook_err = "GameNotRunningError"

(***************************************************************************)
(* C14: for all operands a, b that are each a KeyPress or a KeySequence,   *)
(* the keylist of a + b is the keylist of a followed by the keylist of b,  *)
(* and adding the empty KeySequence on either side leaves the keylist      *)
(* unchanged.                                                              *)
(***************************************************************************)
EmptySequence == AsSequence(<<>>)

C14_AddConcatenates ==
    op = "add" =>
        /\ out.kind = "KeySequence"
        /\ Keylist(out) = Keylist(lhs) \o Keylist(rhs)
        /\ rhs = EmptySequence => Keylist(out) = Keylist(lhs)
        /\ lhs = EmptySequence => Keylist(out) = Keylist(rhs)

\* a KeyPress is added to a KeySequence that starts with the same keys: the
\* two merge into one entry
C14_Witness ==
    /\ op = "add"
    /\ lhs.kind = "KeyPress" /\ lhs.press.frames > 0
    /\ rhs.kind = "KeySequence" /\ Len(rhs.seq) = 2
    /\ rhs.seq[1].keys = lhs.press.keys /\ rhs.seq[1].frames > 0
    /\ rhs.seq[2].keys # lhs.press.keys /\ rhs.seq[2].frames > 0
    /\ Len(out.seq) = 2

(***************************************************************************)
(* C15: for every KeyPress f and every non-negative int n, the keylist of  *)
(* f * n and of n * f has exactly n * f.frames rows and every row is the   *)
(* 20 key values of f.                                                     *)
(***************************************************************************)
C15_MulRepeatsRows ==
    op \in {"mul", "rmul"} =>
        /\ out.kind = "KeyPress"
        /\ Len(Keylist(out)) = times * lhs.press.frames
        /\ \A i \in 1..Len(Keylist(out)) : Keylist(out)[i] = lhs.press.keys

\* a KeyPress of two frames with a stick axis set is doubled
C15_Witness ==
    /\ op = "mul"
    /\ times = 2
    /\ lhs.press.frames = 2
    /\ lhs.press.keys = RowLeft
    /\ Len(Keylist(out)) = 4

(***************************************************************************)
(* C16: a & b on two KeyPresses is commutative: a & b and b & a have the   *)
(* same 20 key values and the same frames, also when a stick axis has      *)
(* equal magnitude and opposite sign in the two operands.                  *)
(***************************************************************************)
C16_AndCommutes ==
    op = "and" => out.press = KeyPressAnd(rhs.press, lhs.press)

(***************************************************************************)
(* C17: a & b has on each of the 14 buttons and 2 triggers the numeric     *)
(* maximum of the operands' values, on each of the 4 stick axes the        *)
(* operand value of strictly greater absolute value with its own sign, and *)
(* as frames the larger of the operands' frames.                           *)
(***************************************************************************)
ButtonAxes == 1..16
StickAxes == 17..20

C17_AndTakesLargest ==
    op = "and" =>
        LET a == lhs.press
            b == rhs.press
            r == out.press
        IN  /\ out.kind = "KeyPress"
            /\ \A i \in ButtonAxes :
                  /\ r.keys[i] \in {a.keys[i], b.keys[i]}
                  /\ r.keys[i] >= a.keys[i] /\ r.keys[i] >= b.keys[i]
            /\ \A i \in StickAxes :
                  /\ Abs(a.keys[i]) > Abs(b.keys[i]) => r.keys[i] = a.keys[i]
                  /\ Abs(b.keys[i]) > Abs(a.keys[i]) => r.keys[i] = b.keys[i]
                  /\ a.keys[i] = b.keys[i] => r.keys[i] = a.keys[i]
            /\ r.frames \in {a.frames, b.frames}
            /\ r.frames >= a.frames /\ r.frames >= b.frames

\* a stick pushed right for two frames is combined with one pushed further
\* left for one frame: the result is the push to the left, for two frames
C17_Witness ==
    /\ op = "and"
    /\ lhs.press = KeyPress(2, RowRight)
    /\ rhs.press = KeyPress(1, RowFarLeft)
    /\ out.press.keys[17] = -32768
    /\ out.press.keys[18] = 5
    /\ out.press.frames = 2

(***************************************************************************)
(* C18: two KeyPresses compare equal exactly when their 20 key values are  *)
(* equal, whatever their frames: __eq__ is true for two KeyPresses with    *)
(* identical keys and different frames.                                    *)
(***************************************************************************)
C18_EqComparesKeysOnly ==
    op = "eq" => (out.kind = "True" <=> lhs.press.keys = rhs.press.keys)

(***************************************************************************)
(* C19: a KeySequence is stored condensed in every reachable state: after  *)
(* construction and after every mutating operation (append, extend, item   *)
(* assignment, combination) no two adjacent entries of the stored list     *)
(* have identical key values.                                              *)
(***************************************************************************)
C19_StoredCondensed ==
    \A i \in 1..(Len(stored) - 1) : stored[i].keys # stored[i + 1].keys

(***************************************************************************)
(* C20: the keylist is invariant under condense(): for every stored list   *)
(* of KeyPresses s, also with zero-frame KeyPresses at the start, in the   *)
(* middle or at the end, the keylist of condense(s) equals the keylist of  *)
(* s row for row.                                                          *)
(***************************************************************************)
C20_CondenseKeepsKeylist ==
    op = "condense" =>
        /\ out.kind = "KeySequence"
        /\ KeySequenceKeylist(out.seq) = KeySequenceKeylist(lhs.seq)

\* a zero-frame KeyPress of other keys stands between two KeyPresses of the
\* same keys, which condense() merges over it into one entry
C20_Witness ==
    /\ op = "condense"
    /\ Len(lhs.seq) = 3
    /\ lhs.seq[1].frames > 0 /\ lhs.seq[3].frames > 0
    /\ lhs.seq[2].frames = 0
    /\ lhs.seq[1].keys = lhs.seq[3].keys
    /\ lhs.seq[2].keys # lhs.seq[1].keys
    /\ Len(out.seq) = 1
    /\ FrameCount(out.seq) = FrameCount(lhs.seq)

(***************************************************************************)
(* C21: condense() is idempotent: for every stored list of KeyPresses s,   *)
(* a second condense() leaves the stored list (entries, key values and     *)
(* frames) exactly as the first one left it.                               *)
(***************************************************************************)
C21_CondenseIdempotent ==
    op = "condense2" => out = rhs

\* the first condense() merged three entries into two, the second one ran
C21_Witness ==
    /\ op = "condense2"
    /\ Len(lhs.seq) = 3
    /\ \A i \in 1..3 : lhs.seq[i].frames > 0
    /\ lhs.seq[1].keys = lhs.seq[2].keys
    /\ lhs.seq[3].keys # lhs.seq[2].keys
    /\ Len(rhs.seq) = 2
    /\ Len(out.seq) = 2

(***************************************************************************)
(* C22: for every non-empty KeySequence s, from_string(to_string(s)) is a  *)
(* KeySequence whose keylist equals the keylist of s row for row.          *)
(***************************************************************************)
C22_RoundTripKeepsKeylist ==
    (op = "roundtrip" /\ lhs.seq # <<>>) =>
        /\ out.kind = "KeySequence"
        /\ KeySequenceKeylist(out.seq) = KeySequenceKeylist(lhs.seq)

\* a sequence with a negative stick value held for two frames and a full
\* trigger went through the text and came back
C22_Witness ==
    /\ op = "roundtrip"
    /\ lhs.seq = <<KeyPress(2, RowFarLeft), KeyPress(1, RowFullTrigger)>>
    /\ Len(KeySequenceKeylist(out.seq)) = 3
    /\ KeySequenceKeylist(out.seq)[1][17] = -32768
    /\ KeySequenceKeylist(out.seq)[3][15] = 255

(***************************************************************************)
(* C23: a raw row whose length is not 20 is rejected with an error and     *)
(* never silently coerced: neither from_list nor TAS._push accepts a list  *)
(* in which any row, not only the first, has a length other than 20.       *)
(***************************************************************************)
HasWrongRow(rows) == \E i \in 1..Len(rows) : Len(rows[i]) # NumKeys

C23_WrongRowRejected ==
    (op \in {"from_list", "push"} /\ HasWrongRow(lhs.rows)) =>
        out.kind \in {"ValueError", "TypeError"}

(***************************************************************************)
(* C24: every KeyPress reached from KeyPresses of frames >= 1 through the  *)
(* operators (+, * by a non-negative int, &), and every entry stored in a  *)
(* KeySequence built from them, has frames >= 1.                           *)
(***************************************************************************)
\* every KeyPress of an operand has frames >= 1
FramesPositive(v) ==
    IF v.kind = "KeyPress" THEN v.press.frames >= 1
    ELSE \A i \in 1..Len(v.seq) : v.seq[i].frames >= 1

C24_FramesAtLeastOne ==
    /\ (op \in {"mul", "rmul"} /\ FramesPositive(lhs)) => FramesPositive(out)
    /\ (op \in {"and", "add"} /\ FramesPositive(lhs) /\ FramesPositive(rhs))
          => FramesPositive(out)

(***************************************************************************)
(* C25: the operators are pure: a + b, x * n, a & b and KeySequence(...)   *)
(* leave the key values and frames of every operand KeyPress and the       *)
(* stored list of every operand KeySequence unchanged, and a later         *)
(* condense() on the result never changes the frames of a KeyPress object  *)
(* that an operand still holds.                                            *)
(***************************************************************************)
C25_OperatorsPure ==
    [][/\ \A obj \in 1..Len(heap) : heap'[obj] = heap[obj]
       /\ hop' \in {"__init__", "add", "mul", "and"} =>
             \A j \in 1..Len(seqs) : seqs'[j] = seqs[j]]_vars

\* condense() merged two entries of a KeySequence that held a KeyPress
\* object together with another KeySequence
C25_Witness ==
    /\ hop = "condense"
    /\ aliased
    /\ \E j \in 1..Len(seqs) :
          /\ Len(seqs[j]) = 1
          /\ heap[seqs[j][1]].frames = 2

(***************************************************************************)
(* C26: write_input encodes a row of 20 values (buttons in {0,1},          *)
(* triggers in 0..255, sticks in -32768..32767) into 12 bytes: buttons     *)
(* 0-9 at bits 0-9 and buttons 10-13 at bits 12-15 of the little-endian    *)
(* 16-bit mask, bits 10-11 zero, the triggers at bytes 2 and 3, the four   *)
(* sticks as signed little-endian 16-bit values at bytes 4-11; read_input  *)
(* of the bytes written for a row returns the row.                         *)
(***************************************************************************)
Bit(mask, n) == (mask \div (2 ^ n)) % 2
Signed16(lo, hi) == IF hi >= 128 THEN lo + 256 * hi - 65536 ELSE lo + 256 * hi

C26_BlockLayout ==
    op = "write_read" =>
        LET row == lhs.rows[1]
            data == rhs.rows[1]
            mask == data[1] + 256 * data[2]
        IN  /\ Len(data) = 12
            /\ \A i \in 1..12 : data[i] \in 0..255
            /\ \A n \in 0..9 : Bit(mask, n) = row[n + 1]
            /\ \A n \in 12..15 : Bit(mask, n) = row[n - 1]
            /\ Bit(mask, 10) = 0 /\ Bit(mask, 11) = 0
            /\ data[3] = row[15] /\ data[4] = row[16]
            /\ \A k \in 0..3 : Signed16(data[5 + 2 * k], data[6 + 2 * k]) = row[17 + k]
            /\ out.rows[1] = row

\* the row with every button, both triggers full and the sticks at their
\* extremes was written and read back
C26_Witness ==
    /\ op = "write_read"
    /\ lhs.rows[1] = RowAll
    /\ rhs.rows[1] = <<255, 243, 255, 255, 255, 127, 0, 128, 255, 255, 0, 1>>
    /\ out.rows[1] = RowAll

(***************************************************************************)
(* C27: when a pointer chain resolves to address zero the accessor fails   *)
(* with an indirection error (RuntimeError) that differs from the error    *)
(* raised for a failed OS memory call, it makes no read or write at an     *)
(* address derived from the zero pointer, and a failed OS read is never    *)
(* reported as an indirection failure.                                     *)
(***************************************************************************)
IsMemEv(e) == e.call \in {"ReadProcessMemory", "WriteProcessMemory"}
\* the accessor call that ends the log starts at position i
LastAccess(i) ==
    /\ i \in 1..Len(oscalls)
    /\ oscalls[i].call \in Accessors
    /\ \A k \in (i + 1)..Len(oscalls) : IsMemEv(oscalls[k])
\* the addresses a zero pointer leads to
ZeroDerived == {0, PadOffset, IgtOffset, FrameCountOffset}

C27_NullIsNotOsFailure ==
    \A i \in 1..Len(oscalls) :
        LastAccess(i) =>
            \A k \in (i + 1)..Len(oscalls) :
                /\ oscalls[k].arg[1] \notin ZeroDerived
                /\ (oscalls[k].arg[2] = 0 /\ Mapped(oscalls[k].arg[1]))
                      => hook_err # "RuntimeError"

(***************************************************************************)
(* C28: with igt_wait true, run() issues its first write_input only after  *)
(* it has seen the clock differ from the value read just after control was *)
(* acquired; with igt_wait false it issues the first write after the fixed *)
(* sleep, without reading the clock again; no write_input precedes that    *)
(* initial wait.                                                           *)
(***************************************************************************)
IsIgtRead(e) == e.call = "igt"
IsTick(e) == e.call = "tick"

C28_FirstWriteAfterWait ==
    [][/\ (args.op = "run" /\ pc # "write" /\ pc' = "write" /\ WrittenRows = <<>>) =>
             /\ Len(SelectSeq(log, IsIgtRead)) = 1
             /\ IF args.igt_wait
                THEN /\ pc = "poll0"
                     /\ log' = Append(log, Ev("tick", Flag(TRUE)))
                     /\ SelectSeq(log, IsTick) = <<>>
                ELSE /\ pc = "nap"
                     /\ log' = log
                     /\ SelectSeq(log, IsTick) = <<>>
       /\ Len(SelectSeq(log', IsWrite)) > Len(SelectSeq(log, IsWrite)) => pc = "write"
      ]_vars

\* a run with igt_wait stands at its first write_input: it read the clock
\* once and then saw it differ
C28_Witness ==
    /\ args.op = "run" /\ args.igt_wait
    /\ pc = "write"
    /\ WrittenRows = <<>>
    /\ Len(SelectSeq(log, IsIgtRead)) = 1
    /\ log[Len(log)] = Ev("tick", Flag(TRUE))

(***************************************************************************)
(* C29: the frames a run(sequence) writes depend only on that sequence:    *)
(* rows left in the queue by an earlier run that ended with an error are   *)
(* discarded before the new sequence is pushed, so the rows the next run   *)
(* writes are exactly those of its sequence and never rows of an earlier   *)
(* one.                                                                    *)
(***************************************************************************)
C29_RunWritesOwnRows ==
    args.op = "run" =>
        /\ IsPrefix(WrittenRows, args.keylist)
        /\ pc \in {"enter", "igt0", "poll0", "sleep0", "nap", "write",
                   "effect", "igt1", "poll1", "sleep1"} => queue = args.keylist
        /\ (RunEnded /\ result = "returned" /\ ~args.empty) =>
               WrittenRows = args.keylist

\* a run called with rows of an earlier run still queued has returned after
\* writing its own two rows
C29_Witness ==
    /\ RunEnded /\ result = "returned"
    /\ stale
    /\ Len(args.keylist) = 2
    /\ WrittenRows = args.keylist

(***************************************************************************)
(* C30: the force_quit script calls the hook's force_quit at most once,    *)
(* and only after it has seen the in-game time stop (a poll whose frame    *)
(* count is more than one above that of the poll before it, with no        *)
(* in-game time above what had been read) and has then seen the in-game    *)
(* time go up on delay_frames + 1 polls; when the in-game time never stops *)
(* there is no call, and an exception from a clock read ends the script    *)
(* without one.                                                            *)
(***************************************************************************)
\* poll k read an in-game time above every one read before it
SawRise(k) == polls[k].igt > Highest(SubSeq(polls, 1, k - 1), "igt")

\* poll s saw the frame count jump while the in-game time stood still
SawStop(s) ==
    /\ polls[s].frame > polls[s - 1].frame + 1
    /\ ~SawRise(s)

C30_QuitAfterStopAndRestart ==
    /\ quits <= 1
    /\ quits = 1 =>
          \E s \in 2..Len(polls) :
             /\ SawStop(s)
             /\ Cardinality({k \in (s + 1)..Len(polls) : SawRise(k)})
                   >= delay_frames + 1
    /\ (\A s \in 2..Len(polls) : ~SawStop(s)) => quits = 0
    /\ fq_err \in ClockErrors => (quits = 0 /\ fq_pc \in {"done", "raised"})

\* the script was called with delay_frames = 1 and has made its call
C30_Witness ==
    /\ fq_pc = "done"
    /\ delay_frames = 1
    /\ quits = 1

====
